---- MODULE Spec2Model ----
(***************************************************************************)
(* Model of demo/comparison_demo.py: ModelComparisonDemo, and of the       *)
(* loops of InteractiveDemo, EvaluationDemo and MockDemo.                  *)
(*                                                                         *)
(*   Spec          ModelComparisonDemo.run_demo                            *)
(*   AnalyzeSpec   analyze_results as a function of the run results        *)
(*   DemoSpec      run_demo of InteractiveDemo, EvaluationDemo, MockDemo   *)
(*   SlugSpec      the file-name slugs as functions of the topic           *)
(*   EvaluateSpec  EvaluationDemo.evaluate_report_quality                  *)
(*                                                                         *)
(* One behaviour is one run of run_demo for one environment.  The steps    *)
(* are the stretches of run_demo between two awaits of the external        *)
(* research entry point, deep_researcher.ainvoke, whose result, exception  *)
(* and duration are the inputs of the model.                               *)
(*                                                                         *)
(* Python values are modelled as follows.                                  *)
(*   None            the record None                                       *)
(*   str             Str(s), a tagged record, where a field may also hold  *)
(*                   None (the "error" field); a plain TLA+ string where   *)
(*                   the field always holds a string; a sequence of        *)
(*                   characters where the code works on the characters     *)
(*                   (the topic, a final_report)                           *)
(*   float (ratio)   Frac(n, d), the exact quotient n / d                  *)
(*   dict            a record; a sequence of [key, value] entries where    *)
(*                   the code iterates over the dict (insertion order)     *)
(*   list            a sequence                                            *)
(***************************************************************************)
EXTENDS Integers, Sequences, FiniteSets, TLC

\* ----- bounds of the model ------------------------------------------------
\* the wall-clock duration of one research call, end_time - start_time,
\* ranges over 1..MaxDuration
MaxDuration == 2

\* ----- Python values ------------------------------------------------------
None == [type |-> "NoneType"]

Str(s) == [type |-> "str", value |-> s]

Frac(n, d) == [num |-> n, den |-> d]

\* a / b = c / d for fractions with positive denominators
FracEq(a, b) == a.num * b.den = b.num * a.den

Max2(a, b) == IF a >= b THEN a ELSE b

\* ----- the environment ----------------------------------------------------
ApiKeys == {"OPENAI_API_KEY", "ANTHROPIC_API_KEY", "GOOGLE_API_KEY"}

\* messages an exception raised by the external research call may carry
ErrorMessages == {"rate limit exceeded"}

Durations == 1..MaxDuration

\* lengths of the final reports the external research call may produce
ReportLengths == {3}

Report(n) == [j \in 1..n |-> "x"]

\* values the external research call may return: a state without a final
\* report (the run ended before the report was written), a state with one
ResearchResults ==
    {[messages |-> "msgs"]}
    \cup {[messages |-> "msgs", final_report |-> Report(n)] : n \in ReportLengths}

\* ----- configuration catalog ---------------------------------------------
Configuration(rm, frm, cm, sm, iters, units) ==
    [type |-> "Configuration",
     research_model |-> rm, final_report_model |-> frm,
     compression_model |-> cm, summarization_model |-> sm,
     search_api |-> "tavily",
     max_researcher_iterations |-> iters,
     max_concurrent_research_units |-> units]

OpenAIConfigs ==
    << [name |-> "OpenAI GPT-4o (Comprehensive)", provider |-> "OpenAI",
        config |-> Configuration("openai:gpt-4o", "openai:gpt-4o",
                                 "openai:gpt-4o-mini", "openai:gpt-4o-mini", 3, 5)],
       [name |-> "OpenAI GPT-4o-mini (Fast)", provider |-> "OpenAI",
        config |-> Configuration("openai:gpt-4o-mini", "openai:gpt-4o-mini",
                                 "openai:gpt-4o-mini", "openai:gpt-4o-mini", 2, 3)] >>

AnthropicConfigs ==
    << [name |-> "Anthropic Claude (Sonnet)", provider |-> "Anthropic",
        config |-> Configuration("anthropic:claude-3-5-sonnet-20241022",
                                 "anthropic:claude-3-5-sonnet-20241022",
                                 "anthropic:claude-3-5-haiku-20241022",
                                 "anthropic:claude-3-5-haiku-20241022", 3, 4)] >>

GoogleConfigs ==
    << [name |-> "Google Gemini", provider |-> "Google",
        config |-> Configuration("google_genai:gemini-1.5-pro",
                                 "google_genai:gemini-1.5-pro",
                                 "google_genai:gemini-1.5-flash",
                                 "google_genai:gemini-1.5-flash", 3, 4)] >>

MixedConfigs ==
    << [name |-> "Mixed Providers (Best of Both)", provider |-> "Mixed",
        config |-> Configuration("openai:gpt-4o",
                                 "anthropic:claude-3-5-sonnet-20241022",
                                 "anthropic:claude-3-5-haiku-20241022",
                                 "openai:gpt-4o-mini", 3, 5)] >>

\* _get_comparison_configs: the catalog for a set of available API keys
ConfigsWithMixedForEitherKey(keys) ==
    LET has_openai    == "OPENAI_API_KEY" \in keys
        has_anthropic == "ANTHROPIC_API_KEY" \in keys
        has_google    == "GOOGLE_API_KEY" \in keys
    IN  (IF has_openai THEN OpenAIConfigs ELSE <<>>)
        \o (IF has_anthropic THEN AnthropicConfigs ELSE <<>>)
        \o (IF has_google THEN GoogleConfigs ELSE <<>>)
        \o (IF has_openai \/ has_anthropic THEN MixedConfigs ELSE <<>>)

GetComparisonConfigs(keys) ==
    LET has_openai    == "OPENAI_API_KEY" \in keys
        has_anthropic == "ANTHROPIC_API_KEY" \in keys
        has_google    == "GOOGLE_API_KEY" \in keys
    IN  (IF has_openai THEN OpenAIConfigs ELSE <<>>)
        \o (IF has_anthropic THEN AnthropicConfigs ELSE <<>>)
        \o (IF has_google THEN GoogleConfigs ELSE <<>>)
        \o (IF has_openai /\ has_anthropic THEN MixedConfigs ELSE <<>>)

\* the topic run_demo uses
\* (a string is the sequence of its characters)
DemoTopic ==
    << "T", "h", "e", " ", "i", "m", "p", "a", "c", "t", " ", "o",
       "f", " ", "l", "a", "r", "g", "e", " ", "l", "a", "n", "g",
       "u", "a", "g", "e", " ", "m", "o", "d", "e", "l", "s", " ",
       "o", "n", " ", "s", "o", "f", "t", "w", "a", "r", "e", " ",
       "d", "e", "v", "e", "l", "o", "p", "m", "e", "n", "t", " ",
       "p", "r", "o", "d", "u", "c", "t", "i", "v", "i", "t", "y" >>


\* ----- dictionaries that are iterated (insertion order matters) ----------
\* a dict is a sequence of entries [key, value] with pairwise distinct keys
DictKeys(d) == {d[j].key : j \in 1..Len(d)}

DictGet(d, k) == d[CHOOSE j \in 1..Len(d) : d[j].key = k].value

\* d[k] = v
DictSet(d, k, v) ==
    IF k \in DictKeys(d)
    THEN [j \in 1..Len(d) |-> IF d[j].key = k THEN [key |-> k, value |-> v] ELSE d[j]]
    ELSE Append(d, [key |-> k, value |-> v])

\* ----- helpers of the list expressions -----------------------------------
RECURSIVE SumSeq(_)
SumSeq(s) == IF s = <<>> THEN 0 ELSE s[1] + SumSeq(Tail(s))

\* Python's min(seq, key=...) returns the first element whose key is
\* minimal: its position, given the keys of the elements
FirstMin(keys) ==
    CHOOSE j \in 1..Len(keys) :
        /\ \A k \in 1..Len(keys) : keys[j] <= keys[k]
        /\ \A k \in 1..(j - 1) : keys[k] > keys[j]

\* Python's max(seq, key=...) returns the first element whose key is
\* maximal: its position, given the keys of the elements
FirstMax(keys) ==
    CHOOSE j \in 1..Len(keys) :
        /\ \A k \in 1..Len(keys) : keys[j] >= keys[k]
        /\ \A k \in 1..(j - 1) : keys[k] < keys[j]

\* [x["duration"] for x in rs]
DurationsOf(rs) == [j \in 1..Len(rs) |-> rs[j].duration]

\* [len(x["result"]["final_report"]) for x in rs]
ReportLengthsOf(rs) == [j \in 1..Len(rs) |-> Len(rs[j].result.final_report)]

IsSuccess(r) == r.success

\* r["result"] and "final_report" in r["result"]
HasFinalReport(r) == r.result # None /\ "final_report" \in DOMAIN r.result

ReportLength(r) == Len(r.result.final_report)


\* ----- analyze_results ----------------------------------------------------
SuccessfulResults(results) == SelectSeq(results, IsSuccess)

RECURSIVE SumDurations(_)
SumDurations(rs) == IF rs = <<>> THEN 0 ELSE rs[1].duration + SumDurations(Tail(rs))

\* analysis["fastest_config"]
FastestOfAllRuns(results) ==
    IF results # <<>> THEN results[FirstMin(DurationsOf(results))] ELSE None

FastestConfig(results) ==
    LET successful_results == SuccessfulResults(results)
    IN  IF successful_results # <<>>
        THEN successful_results[FirstMin(DurationsOf(successful_results))]
        ELSE None

\* analysis["slowest_config"]
SlowestConfig(results) ==
    LET successful_results == SuccessfulResults(results)
    IN  IF successful_results # <<>>
        THEN successful_results[FirstMax(DurationsOf(successful_results))]
        ELSE None

ResultsWithReports(results) == SelectSeq(SuccessfulResults(results), HasFinalReport)

\* analysis["longest_report"]
LongestReport(results) ==
    LET results_with_reports == ResultsWithReports(results)
    IN  IF results_with_reports # <<>>
        THEN results_with_reports[FirstMax(ReportLengthsOf(results_with_reports))]
        ELSE None

\* analysis["shortest_report"]
ShortestReport(results) ==
    LET results_with_reports == ResultsWithReports(results)
    IN  IF results_with_reports # <<>>
        THEN results_with_reports[FirstMin(ReportLengthsOf(results_with_reports))]
        ELSE None

\* provider_stats after the loop over successful_results
RECURSIVE ProviderStats(_)
ProviderStats(successful_results) ==
    IF successful_results = <<>> THEN <<>>
    ELSE LET n        == Len(successful_results)
             stats    == ProviderStats(SubSeq(successful_results, 1, n - 1))
             result   == successful_results[n]
             provider == result.provider
             old      == IF provider \in DictKeys(stats)
                         THEN DictGet(stats, provider)
                         ELSE [count |-> 0, total_duration |-> 0, reports |-> <<>>]
         IN  DictSet(stats, provider,
                     [count          |-> old.count + 1,
                      total_duration |-> old.total_duration + result.duration,
                      reports        |-> IF HasFinalReport(result)
                                         THEN Append(old.reports, ReportLength(result))
                                         ELSE old.reports])

\* stats["count"] / len([r for r in results if r["provider"] == provider])
SuccessRateOverAllRuns(results, provider, stats) ==
    Frac(stats.count, Len(results))

SuccessRate(results, provider, stats) ==
    Frac(stats.count, Len(SelectSeq(results, LAMBDA r : r.provider = provider)))

\* sum(stats["reports"]) / len(stats["reports"]) if stats["reports"] else 0
AverageReportLengthPerRun(stats) ==
    IF stats.reports # <<>>
    THEN Frac(SumSeq(stats.reports), stats.count)
    ELSE Frac(0, 1)

AverageReportLength(stats) ==
    IF stats.reports # <<>>
    THEN Frac(SumSeq(stats.reports), Len(stats.reports))
    ELSE Frac(0, 1)

\* analysis["provider_performance"]
ProviderPerformance(results) ==
    LET provider_stats == ProviderStats(SuccessfulResults(results))
    IN  [j \in 1..Len(provider_stats) |->
            LET provider == provider_stats[j].key
                stats    == provider_stats[j].value
            IN  [key   |-> provider,
                 value |-> [average_duration |-> Frac(stats.total_duration, stats.count),
                            average_report_length |-> AverageReportLength(stats),
                            success_rate |-> SuccessRate(results, provider, stats)]]]

\* sum(r["duration"] for r in successful_results) / max(1, len(successful_results))
AverageDurationOverAllRuns(results) ==
    Frac(SumDurations(SuccessfulResults(results)), Max2(1, Len(results)))

AverageDuration(results) ==
    LET successful_results == SuccessfulResults(results)
    IN  Frac(SumDurations(successful_results), Max2(1, Len(successful_results)))

AnalyzeResults(results) ==
    [total_configs       |-> Len(results),
     successful_configs  |-> Len(SelectSeq(results, IsSuccess)),
     failed_configs      |-> Len(SelectSeq(results, LAMBDA r : ~r.success)),
     average_duration    |-> AverageDuration(results),
     fastest_config      |-> FastestConfig(results),
     slowest_config      |-> SlowestConfig(results),
     longest_report      |-> LongestReport(results),
     shortest_report     |-> ShortestReport(results),
     provider_performance |-> ProviderPerformance(results)]


\* ----- save_comparison_results: file name --------------------------------
Letters ==
    {"a", "b", "c", "d", "e", "f", "g", "h", "i", "j", "k", "l", "m",
     "n", "o", "p", "q", "r", "s", "t", "u", "v", "w", "x", "y", "z",
     "A", "B", "C", "D", "E", "F", "G", "H", "I", "J", "K", "L", "M",
     "N", "O", "P", "Q", "R", "S", "T", "U", "V", "W", "X", "Y", "Z"}

Digits == {"0", "1", "2", "3", "4", "5", "6", "7", "8", "9"}

\* c.isalnum()
IsAlnum(c) == c \in Letters \cup Digits

\* str.rstrip() on a string whose only whitespace is ' '
RECURSIVE RStrip(_)
RStrip(s) ==
    IF s # <<>> /\ s[Len(s)] = " " THEN RStrip(SubSeq(s, 1, Len(s) - 1)) ELSE s

\* s[:n]
Prefix(s, n) == SubSeq(s, 1, IF Len(s) < n THEN Len(s) ELSE n)


\* length of the topic part of a comparison file name
ComparisonSlugLen == 40

\* safe_topic
SafeTopicKeepingDots(topic) ==
    LET kept     == SelectSeq(topic, LAMBDA c : IsAlnum(c) \/ c \in {" ", "-", "_", "."})
        stripped == RStrip(kept)
        replaced == [j \in 1..Len(stripped) |->
                        IF stripped[j] = " " THEN "_" ELSE stripped[j]]
    IN  Prefix(replaced, ComparisonSlugLen)

SafeTopic(topic) ==
    LET kept     == SelectSeq(topic, LAMBDA c : IsAlnum(c) \/ c \in {" ", "-", "_"})
        stripped == RStrip(kept)
        replaced == [j \in 1..Len(stripped) |->
                        IF stripped[j] = " " THEN "_" ELSE stripped[j]]
    IN  Prefix(replaced, ComparisonSlugLen)

ResultsDir == "demo_results/comparisons"

\* results_dir / f"comparison_{safe_topic}_{timestamp}.{ext}"
ComparisonFilename(safe_topic, timestamp, ext) ==
    [dir |-> ResultsDir, prefix |-> "comparison", safe_topic |-> safe_topic,
     timestamp |-> timestamp, ext |-> ext]

\* ----- save_comparison_results: JSON -------------------------------------
\* report_length of a json_result
JsonLengthOfResult(result) ==
    IF result.success /\ result.result # None
    THEN Cardinality(DOMAIN result.result)
    ELSE 0

JsonReportLength(result) ==
    IF result.success /\ HasFinalReport(result) THEN ReportLength(result) ELSE 0

JsonResult(result) ==
    [config_name   |-> result.config_name,
     provider      |-> result.provider,
     duration      |-> result.duration,
     success       |-> result.success,
     error         |-> result.error,
     report_length |-> JsonReportLength(result)]

\* the value of the "analysis" key of json_data
JsonAnalysis(analysis) == analysis

JsonData(results, analysis, topic, timestamp) ==
    [topic     |-> topic,
     timestamp |-> timestamp,
     analysis  |-> JsonAnalysis(analysis),
     results   |-> [j \in 1..Len(results) |-> JsonResult(results[j])]]

\* the keys of analysis whose value is a run record or None
RunRecordKeys == {"fastest_config", "slowest_config", "longest_report", "shortest_report"}

\* the run records json.dump reaches through json_data["analysis"]
RunRecordsIn(json_data) ==
    {json_data.analysis[k] : k \in {k \in RunRecordKeys : k \in DOMAIN json_data.analysis}}
    \ {None}

\* the Configuration objects json.dump reaches from json_data
ConfigurationObjectsIn(json_data) ==
    {r.config : r \in {r \in RunRecordsIn(json_data) : "config" \in DOMAIN r}}

\* the raw research results json.dump would reach from json_data
RawResultsIn(json_data) ==
    {r.result : r \in {r \in RunRecordsIn(json_data) : "result" \in DOMAIN r}} \ {None}

\* json.dump raises TypeError on the first object that is no dict, list, str,
\* number, bool or None; in a run record "config" precedes "result"
JsonDumpRaises(json_data) == ConfigurationObjectsIn(json_data) # {}


\* ----- save_comparison_results: Markdown ---------------------------------
\* f"{x:.1f}": x rounded to tenths (ties to even), as a number of tenths
Format1f(x) ==
    LET q == (10 * x.num) \div x.den
        r == (10 * x.num) % x.den
    IN  IF 2 * r < x.den THEN q
        ELSE IF 2 * r > x.den THEN q + 1
        ELSE IF q % 2 = 0 THEN q ELSE q + 1

\* characters of a report shown in the Markdown preview
PreviewLimit == 500

\* report[:500] + "..." if len(report) > 500 else report
MarkdownPreview(report) ==
    IF Len(report) > PreviewLimit
    THEN Prefix(report, PreviewLimit) \o <<".", ".", ".">>
    ELSE report

\* the lines of a subsection after its Status line
MarkdownDetail(result) ==
    IF result.success /\ HasFinalReport(result)
    THEN << [line |-> "Report length", n |-> ReportLength(result)],
            [line |-> "Report Preview", preview |-> MarkdownPreview(result.result.final_report)] >>
    ELSE IF ~result.success
    THEN << [line |-> "Error", text |-> result.error] >>
    ELSE << >>

\* "### {config_name}" and the lines below it
MarkdownSubsection(result) ==
    [block       |-> "### configuration",
     config_name |-> result.config_name,
     provider    |-> result.provider,
     duration    |-> Format1f(Frac(result.duration, 1)),
     status      |-> IF result.success THEN "Success" ELSE "Failed",
     detail      |-> MarkdownDetail(result)]

\* "## Summary" and the lines below it
MarkdownSummary(analysis) ==
    [block            |-> "## Summary",
     total_configs    |-> analysis.total_configs,
     successful_runs  |-> analysis.successful_configs,
     failed_runs      |-> analysis.failed_configs,
     average_duration |-> Format1f(analysis.average_duration)]

\* "## Analysis" and the lines below it
MarkdownAnalysis(analysis) ==
    [block   |-> "## Analysis",
     fastest |-> IF analysis.fastest_config # None
                 THEN << [config_name |-> analysis.fastest_config.config_name,
                          duration    |-> Format1f(Frac(analysis.fastest_config.duration, 1))] >>
                 ELSE << >>,
     provider_performance |->
        [j \in 1..Len(analysis.provider_performance) |->
            [provider |-> analysis.provider_performance[j].key,
             average_duration |->
                Format1f(analysis.provider_performance[j].value.average_duration)]]]

\* content, block by block
MarkdownContent(results, analysis, topic, timestamp) ==
    << [block |-> "# Model Comparison Report", topic |-> topic],
       [block |-> "Generated at", timestamp |-> timestamp],
       MarkdownSummary(analysis),
       [block |-> "## Configuration Results"] >>
    \o [j \in 1..Len(results) |-> MarkdownSubsection(results[j])]
    \o << MarkdownAnalysis(analysis) >>


\* ----- run_comparison_research: the result records ------------------------
Exception(message) == [type |-> "Exception", message |-> message]

\* str(e)
PyStr(e) == Str(e.message)

\* the record appended when the research call returned
SuccessRecordWithEmptyError(config_info, result, duration) ==
    [config_name |-> config_info.name,
     provider    |-> config_info.provider,
     config      |-> config_info.config,
     result      |-> result,
     duration    |-> duration,
     success     |-> TRUE,
     error       |-> Str("")]

SuccessRecord(config_info, result, duration) ==
    [config_name |-> config_info.name,
     provider    |-> config_info.provider,
     config      |-> config_info.config,
     result      |-> result,
     duration    |-> duration,
     success     |-> TRUE,
     error       |-> None]

\* the record appended when the research call raised e
FailureRecordTypeName(config_info, e, duration) ==
    [config_name |-> config_info.name,
     provider    |-> config_info.provider,
     config      |-> config_info.config,
     result      |-> None,
     duration    |-> duration,
     success     |-> FALSE,
     error       |-> Str(e.type)]

FailureRecord(config_info, e, duration) ==
    [config_name |-> config_info.name,
     provider    |-> config_info.provider,
     config      |-> config_info.config,
     result      |-> None,
     duration    |-> duration,
     success     |-> FALSE,
     error       |-> PyStr(e)]

\* ----- state ---------------------------------------------------------------
VARIABLES
    env,                \* the provider API keys set in the environment
    comparison_configs, \* self.comparison_configs
    pc,                 \* position of run_demo
    i,                  \* position of the loop of run_comparison_research (from 1)
    results,            \* results of run_comparison_research / run_demo
    invocations,        \* positions of the configurations deep_researcher.ainvoke
                        \* was called for, in call order
    outstanding,        \* positions of the calls that have not returned or raised
    outcomes,           \* what each finished call did, in order: returned a
                        \* value or raised an exception, and the time it took
    analysis,           \* analysis of run_demo
    json_data,          \* json_data of save_comparison_results
    files,              \* the files opened for writing, in order
    console,            \* what was printed, in order
    now,                \* time.time(), in seconds since run_demo started; only
                        \* the awaited research calls take time
    demo,               \* the class of the demo object main() runs
    FULL_SYSTEM_AVAILABLE, \* interactive_demo.FULL_SYSTEM_AVAILABLE
    demo_configs,       \* self.demo_configs of InteractiveDemo and MockDemo
    research_config,    \* config of InteractiveDemo.run_demo,
                        \* selected_config of MockDemo.run_demo
    research_topic,     \* topic of run_demo
    research_result,    \* result of run_demo
    prompts,            \* the questions Prompt.ask and Confirm.ask have put to
                        \* the user in the current iteration, with the answers
    iterations          \* iterations of the while loop of run_demo completed

\* the variables of the interactive demos
demoVars == <<demo, FULL_SYSTEM_AVAILABLE, demo_configs, research_config, research_topic,
              research_result, prompts, iterations>>

\* the variables only ModelComparisonDemo uses
comparisonVars == <<comparison_configs, i, results, outstanding, outcomes, analysis,
                    json_data, now>>

vars == <<env, comparison_configs, pc, i, results, invocations, outstanding, outcomes,
          analysis, json_data, files, console, now, demo, FULL_SYSTEM_AVAILABLE,
          demo_configs, research_config, research_topic, research_result, prompts,
          iterations>>

\* the interactive demos' variables while another demo runs
NoInteractiveDemo ==
    /\ demo_configs = <<>>
    /\ research_config = None
    /\ research_topic = None
    /\ research_result = None
    /\ prompts = <<>>
    /\ iterations = 0

Init ==
    /\ env \in SUBSET ApiKeys
    /\ comparison_configs = GetComparisonConfigs(env)
    /\ pc = "start"
    /\ i = 1
    /\ results = <<>>
    /\ invocations = <<>>
    /\ outstanding = {}
    /\ outcomes = <<>>
    /\ analysis = None
    /\ json_data = None
    /\ files = <<>>
    /\ console = <<>>
    /\ now = 0
    /\ demo = "ModelComparisonDemo"
    /\ FULL_SYSTEM_AVAILABLE = TRUE
    /\ NoInteractiveDemo

\* results.append(record)
PrependResult(rs, record) == <<record>> \o rs

AppendResult(rs, record) == Append(rs, record)

\* the calls outstanding once the awaited call for a position is over
StillOutstanding(calls, position) == calls

AfterAwait(calls, position) == calls \ {position}

\* the for loop moves on to the next configuration
SamePosition(position) == position

NextPosition(position) == position + 1

\* run_demo up to the call of run_comparison_research
RunDemoStart ==
    /\ pc = "start"
    /\ IF comparison_configs = <<>>
       THEN /\ console' = console \o << [msg |-> "intro"], [msg |-> "no api keys"] >>
            /\ pc' = "done"
       ELSE /\ console' = console \o << [msg |-> "intro"],
                                        [msg |-> "available", n |-> Len(comparison_configs)],
                                        [msg |-> "topic", topic |-> DemoTopic] >>
            /\ pc' = "loop"
    /\ UNCHANGED <<env, comparison_configs, i, results, invocations, outstanding, outcomes,
                   analysis, json_data, files, now>>
    /\ UNCHANGED demoVars

\* one iteration up to the await of deep_researcher.ainvoke
StartResearch ==
    /\ pc = "loop"
    /\ i <= Len(comparison_configs)
    /\ invocations' = Append(invocations, i)
    /\ outstanding' = outstanding \cup {i}
    /\ pc' = "await"
    /\ UNCHANGED <<env, comparison_configs, i, results, outcomes, analysis, json_data,
                   files, console, now>>
    /\ UNCHANGED demoVars

\* the awaited call returns: the rest of the try block and of the iteration
ResearchReturns(result, duration) ==
    /\ pc = "await"
    /\ outstanding' = AfterAwait(outstanding, i)
    /\ outcomes' = Append(outcomes, [position |-> i, raised |-> FALSE, value |-> result,
                                     elapsed |-> duration])
    /\ results' = AppendResult(results, SuccessRecord(comparison_configs[i], result, duration))
    /\ console' = Append(console, [msg |-> "completed",
                                   config_name |-> comparison_configs[i].name])
    /\ i' = NextPosition(i)
    /\ now' = now + duration
    /\ pc' = "loop"
    /\ UNCHANGED <<env, comparison_configs, invocations, analysis, json_data, files>>
    /\ UNCHANGED demoVars

\* the awaited call raises an Exception: the except block and the rest of
\* the iteration
ResearchRaises(e, duration) ==
    /\ pc = "await"
    /\ outstanding' = AfterAwait(outstanding, i)
    /\ outcomes' = Append(outcomes, [position |-> i, raised |-> TRUE, value |-> e,
                                     elapsed |-> duration])
    /\ results' = AppendResult(results, FailureRecord(comparison_configs[i], e, duration))
    /\ console' = Append(console, [msg |-> "failed",
                                   config_name |-> comparison_configs[i].name,
                                   error |-> PyStr(e)])
    /\ i' = NextPosition(i)
    /\ now' = now + duration
    /\ pc' = "loop"
    /\ UNCHANGED <<env, comparison_configs, invocations, analysis, json_data, files>>
    /\ UNCHANGED demoVars

\* what a user interrupt (Ctrl-C) raises at the await: KeyboardInterrupt where
\* the signal handler raises it in the running coroutine, CancelledError
\* where asyncio.run cancels the main task on SIGINT
KeyboardInterrupt == [type |-> "KeyboardInterrupt"]

CancelledError == [type |-> "CancelledError"]

UserInterrupts == {KeyboardInterrupt, CancelledError}

\* results of run_demo once the exception has left run_comparison_research:
\* the list was local to it and run_demo's assignment never happened
ResultsKeptAfterInterrupt(rs) == rs

ResultsAfterInterrupt(rs) == <<>>

\* the except clauses of run_demo for an exception that is no Exception
PrintedOnInterrupt(e) ==
    IF e = KeyboardInterrupt THEN << [msg |-> "interrupted"] >> ELSE << >>

\* run_demo returns after its except KeyboardInterrupt clause; any other
\* exception that is no Exception leaves run_demo and main
AfterInterrupt(e) == IF e = KeyboardInterrupt THEN "done" ELSE "raised"

\* a user interrupt during the await: no except clause of
\* run_comparison_research catches it, run_demo's catches KeyboardInterrupt
ResearchInterrupted(e) ==
    /\ pc = "await"
    /\ outstanding' = AfterAwait(outstanding, i)
    /\ results' = ResultsAfterInterrupt(results)
    /\ console' = console \o PrintedOnInterrupt(e)
    /\ pc' = AfterInterrupt(e)
    /\ UNCHANGED <<env, comparison_configs, i, invocations, outcomes, analysis, json_data,
                   files, now>>
    /\ UNCHANGED demoVars

\* the loop is exhausted and run_comparison_research returns results;
\* run_demo: analyze_results and display_comparison_results
ReturnAndAnalyze ==
    /\ pc = "loop"
    /\ i > Len(comparison_configs)
    /\ analysis' = AnalyzeResults(results)
    /\ console' = Append(console, [msg |-> "comparison results",
                                   n |-> Len(results)])
    /\ pc' = "save"
    /\ UNCHANGED <<env, comparison_configs, i, results, invocations, outstanding, outcomes,
                   json_data, files, now>>
    /\ UNCHANGED demoVars

\* a file whose writing was cut short by an exception
PartialFile(name) == [name |-> name, complete |-> FALSE]

WrittenFile(name, content) == [name |-> name, complete |-> TRUE, content |-> content]

\* run_demo: save_comparison_results, and the except clause of run_demo when
\* json.dump raises
SaveComparisonResults ==
    LET topic         == DemoTopic
        timestamp     == now
        safe_topic    == SafeTopic(topic)
        json_filename == ComparisonFilename(safe_topic, timestamp, "json")
        md_filename   == ComparisonFilename(safe_topic, timestamp, "md")
        data          == JsonData(results, analysis, topic, timestamp)
    IN  /\ pc = "save"
        /\ json_data' = data
        /\ IF JsonDumpRaises(data)
           THEN /\ files' = Append(files, PartialFile(json_filename))
                /\ console' = Append(console, [msg |-> "error during comparison"])
                /\ pc' = "done"
           ELSE /\ files' = files \o
                        << WrittenFile(json_filename, data),
                           WrittenFile(md_filename,
                                       MarkdownContent(results, analysis, topic, timestamp)) >>
                /\ console' = Append(console, [msg |-> "saved"])
                /\ pc' = "saved"
        /\ UNCHANGED <<env, comparison_configs, i, results, invocations, outstanding, outcomes,
                       analysis, now>>
        /\ UNCHANGED demoVars

\* run_demo: the completion message
Complete ==
    /\ pc = "saved"
    /\ console' = Append(console, [msg |-> "completed demo"])
    /\ pc' = "done"
    /\ UNCHANGED <<env, comparison_configs, i, results, invocations, outstanding, outcomes,
                   analysis, json_data, files, now>>
    /\ UNCHANGED demoVars

Next ==
    \/ RunDemoStart
    \/ StartResearch
    \/ \E result \in ResearchResults, duration \in Durations :
          ResearchReturns(result, duration)
    \/ \E message \in ErrorMessages, duration \in Durations :
          ResearchRaises(Exception(message), duration)
    \/ \E e \in UserInterrupts : ResearchInterrupted(e)
    \/ ReturnAndAnalyze
    \/ SaveComparisonResults
    \/ Complete

Spec == Init /\ [][Next]_vars


\* ----- analyze_results as a function of its argument ---------------------
\* the longest result list analyze_results is applied to
MaxResults == 2

\* the configurations of the runs in a result list
AnalyzedConfigs == {OpenAIConfigs[1], AnthropicConfigs[1]}

\* the research results of the successful runs in a result list
AnalyzedResearchResults ==
    {[messages |-> "msgs"]}
    \cup {[messages |-> "msgs", final_report |-> Report(n)] : n \in {1, 2}}

\* the records run_comparison_research builds
RunRecords ==
    {SuccessRecord(config_info, value, duration) :
        config_info \in AnalyzedConfigs, value \in AnalyzedResearchResults,
        duration \in Durations}
    \cup {FailureRecord(config_info, Exception(message), duration) :
              config_info \in AnalyzedConfigs, message \in ErrorMessages,
              duration \in Durations}

ResultLists == UNION {[1..n -> RunRecords] : n \in 0..MaxResults}

AnalyzeInit ==
    /\ env = {}
    /\ comparison_configs = <<>>
    /\ pc = "analyze_results"
    /\ i = 1
    /\ results \in ResultLists
    /\ invocations = <<>>
    /\ outstanding = {}
    /\ outcomes = <<>>
    /\ analysis = None
    /\ json_data = None
    /\ files = <<>>
    /\ console = <<>>
    /\ now = 0
    /\ demo = "ModelComparisonDemo"
    /\ FULL_SYSTEM_AVAILABLE = TRUE
    /\ NoInteractiveDemo

\* analysis = self.analyze_results(results)
AnalyzeResultsCall ==
    /\ pc = "analyze_results"
    /\ analysis' = AnalyzeResults(results)
    /\ pc' = "analyzed"
    /\ UNCHANGED <<env, comparison_configs, i, results, invocations, outstanding, outcomes,
                   json_data, files, console, now>>
    /\ UNCHANGED demoVars

AnalyzeNext == AnalyzeResultsCall

AnalyzeSpec == AnalyzeInit /\ [][AnalyzeNext]_vars

\* ----- interactive_demo.py: InteractiveDemo, the data ---------------------
\* the characters of the topics of the demos
Chars(topic) ==
    CASE topic = "The impact of artificial intelligence on climate change research" ->
            << "T", "h", "e", " ", "i", "m", "p", "a", "c", "t", " ", "o",
               "f", " ", "a", "r", "t", "i", "f", "i", "c", "i", "a", "l",
               " ", "i", "n", "t", "e", "l", "l", "i", "g", "e", "n", "c",
               "e", " ", "o", "n", " ", "c", "l", "i", "m", "a", "t", "e",
               " ", "c", "h", "a", "n", "g", "e", " ", "r", "e", "s", "e",
               "a", "r", "c", "h" >>
      [] topic = "Recent developments in quantum computing applications" ->
            << "R", "e", "c", "e", "n", "t", " ", "d", "e", "v", "e", "l",
               "o", "p", "m", "e", "n", "t", "s", " ", "i", "n", " ", "q",
               "u", "a", "n", "t", "u", "m", " ", "c", "o", "m", "p", "u",
               "t", "i", "n", "g", " ", "a", "p", "p", "l", "i", "c", "a",
               "t", "i", "o", "n", "s" >>
      [] topic = "Sustainable energy solutions for urban environments" ->
            << "S", "u", "s", "t", "a", "i", "n", "a", "b", "l", "e", " ",
               "e", "n", "e", "r", "g", "y", " ", "s", "o", "l", "u", "t",
               "i", "o", "n", "s", " ", "f", "o", "r", " ", "u", "r", "b",
               "a", "n", " ", "e", "n", "v", "i", "r", "o", "n", "m", "e",
               "n", "t", "s" >>
      [] topic = "The role of machine learning in drug discovery" ->
            << "T", "h", "e", " ", "r", "o", "l", "e", " ", "o", "f", " ",
               "m", "a", "c", "h", "i", "n", "e", " ", "l", "e", "a", "r",
               "n", "i", "n", "g", " ", "i", "n", " ", "d", "r", "u", "g",
               " ", "d", "i", "s", "c", "o", "v", "e", "r", "y" >>
      [] topic = "Blockchain technology in supply chain management" ->
            << "B", "l", "o", "c", "k", "c", "h", "a", "i", "n", " ", "t",
               "e", "c", "h", "n", "o", "l", "o", "g", "y", " ", "i", "n",
               " ", "s", "u", "p", "p", "l", "y", " ", "c", "h", "a", "i",
               "n", " ", "m", "a", "n", "a", "g", "e", "m", "e", "n", "t" >>
      [] topic = "The impact of AI on climate change research" ->
            << "T", "h", "e", " ", "i", "m", "p", "a", "c", "t", " ", "o",
               "f", " ", "A", "I", " ", "o", "n", " ", "c", "l", "i", "m",
               "a", "t", "e", " ", "c", "h", "a", "n", "g", "e", " ", "r",
               "e", "s", "e", "a", "r", "c", "h" >>
      [] topic = "Quantum computing applications in cryptography" ->
            << "Q", "u", "a", "n", "t", "u", "m", " ", "c", "o", "m", "p",
               "u", "t", "i", "n", "g", " ", "a", "p", "p", "l", "i", "c",
               "a", "t", "i", "o", "n", "s", " ", "i", "n", " ", "c", "r",
               "y", "p", "t", "o", "g", "r", "a", "p", "h", "y" >>
      [] topic = "Rust vs. Go" ->
            << "R", "u", "s", "t", " ", "v", "s", ".", " ", "G", "o" >>

\* the text a user types when asked for a topic of their own
TypedTopics == {"Rust vs. Go"}

\* the names check_environment looks up in the environment
InteractiveApiKeys ==
    {"OPENAI_API_KEY", "TAVILY_API_KEY", "ANTHROPIC_API_KEY", "GOOGLE_API_KEY"}

RequiredVarsWithoutTavily == <<"OPENAI_API_KEY">>

RequiredVars == <<"OPENAI_API_KEY", "TAVILY_API_KEY">>

OptionalVars == <<"ANTHROPIC_API_KEY", "GOOGLE_API_KEY">>

\* one entry of the dict _load_demo_configs returns; SearchAPI.TAVILY is
\* "tavily", SearchAPI.ANTHROPIC is "anthropic_web_search"
Preset(key, name, rm, frm, cm, sm, search_api, iters, units) ==
    [key   |-> key,
     value |-> [name   |-> name,
                config |-> [research_model |-> rm, final_report_model |-> frm,
                            compression_model |-> cm, summarization_model |-> sm,
                            search_api |-> search_api,
                            max_researcher_iterations |-> iters,
                            max_concurrent_research_units |-> units]]]

\* InteractiveDemo._load_demo_configs
LoadDemoConfigs ==
    << Preset("fast_research", "Fast Research (GPT-4o-mini + Tavily)",
              "openai:gpt-4o-mini", "openai:gpt-4o-mini",
              "openai:gpt-4o-mini", "openai:gpt-4o-mini", "tavily", 2, 3),
       Preset("comprehensive_research", "Comprehensive Research (GPT-4o + Tavily)",
              "openai:gpt-4o", "openai:gpt-4o",
              "openai:gpt-4o-mini", "openai:gpt-4o-mini", "tavily", 3, 5),
       Preset("anthropic_research", "Anthropic Research (Claude + Native Search)",
              "anthropic:claude-3-5-sonnet-20241022",
              "anthropic:claude-3-5-sonnet-20241022",
              "anthropic:claude-3-5-haiku-20241022",
              "anthropic:claude-3-5-haiku-20241022", "anthropic_web_search", 3, 4),
       Preset("mixed_providers", "Mixed Providers (GPT-4o + Claude + Tavily)",
              "openai:gpt-4o", "anthropic:claude-3-5-sonnet-20241022",
              "anthropic:claude-3-5-haiku-20241022", "openai:gpt-4o-mini",
              "tavily", 3, 5) >>

\* Configuration(**config_dict): an object whose attributes are the entries
\* of config_dict
ConfigurationOf(config_dict) ==
    [k \in DOMAIN config_dict \cup {"type"} |->
        IF k = "type" THEN "Configuration" ELSE config_dict[k]]

\* config.__dict__
ConfigDict(config) == [k \in DOMAIN config \ {"type"} |-> config[k]]

\* the examples of get_research_topic
Examples ==
    << "The impact of artificial intelligence on climate change research",
       "Recent developments in quantum computing applications",
       "Sustainable energy solutions for urban environments",
       "The role of machine learning in drug discovery",
       "Blockchain technology in supply chain management" >>

\* [str(i) for i in range(1, n + 1)], the choices of a numbered menu
Choices(n) == 1..n

\* what a user may type at a numbered menu of n entries: a number of the
\* menu, or one below or above it
Answers(n) == 0..(n + 1)

\* Prompt.ask(..., choices=choices) asks again until the answer is one of
\* the choices
Accepted(answer, choices) == answer \in choices

\* ----- InteractiveDemo: the methods ---------------------------------------
\* [var for var in names if not os.getenv(var)]
Missing(names, keys) == SelectSeq(names, LAMBDA var : var \notin keys)

\* check_environment in demo mode: what it prints and returns
CheckEnvironmentDemoMode ==
    [returns |-> TRUE, printed |-> << [msg |-> "demo mode"] >>]

\* check_environment with the full system
CheckEnvironmentFull(keys) ==
    LET missing_required == Missing(RequiredVars, keys)
        missing_optional == Missing(OptionalVars, keys)
    IN  IF missing_required # <<>>
        THEN [returns |-> FALSE,
              printed |-> << [msg |-> "missing required", names |-> missing_required],
                             [msg |-> "please set them"] >>]
        ELSE [returns |-> TRUE,
              printed |-> (IF missing_optional # <<>>
                           THEN << [msg |-> "missing optional", names |-> missing_optional],
                                   [msg |-> "some configurations may not work"] >>
                           ELSE <<>>)
                          \o << [msg |-> "environment check passed"] >>]

CheckEnvironmentIgnoringMode(full, keys) == CheckEnvironmentFull(keys)

CheckEnvironment(full, keys) ==
    IF ~full THEN CheckEnvironmentDemoMode ELSE CheckEnvironmentFull(keys)

\* select_configuration: the Configuration for an accepted choice
SelectedConfigurationOffByOne(config_list, choice) ==
    LET selected_key == config_list[(choice % Len(config_list)) + 1].key
    IN  ConfigurationOf(DictGet(config_list, selected_key).config)

SelectedConfiguration(config_list, choice) ==
    LET selected_key == config_list[choice].key
    IN  ConfigurationOf(DictGet(config_list, selected_key).config)

\* get_research_topic: examples[choice - 1]
ExampleTopicOffByOne(choice) == Examples[(choice % Len(Examples)) + 1]

ExampleTopic(choice) == Examples[choice]

\* config_dict.get(k, default)
GetOr(config_dict, k, default) ==
    IF k \in DOMAIN config_dict THEN config_dict[k] ELSE default

\* _generate_mock_report: the template filled with the topic, the search API
\* and the research model
GenerateMockReport(topic, config_dict) ==
    [template       |-> "# Research Report",
     topic          |-> topic,
     search_api     |-> GetOr(config_dict, "search_api", "mock-search"),
     research_model |-> GetOr(config_dict, "research_model", "mock-model")]

\* _mock_research: the fabricated result
MockResearch(topic, config) ==
    LET config_dict == ConfigDict(config)
    IN  [final_report |-> GenerateMockReport(topic, config_dict),
         raw_notes    |-> [n \in 1..3 |-> [note |-> n, about |-> topic]],
         sources      |-> << [title |-> "Academic Paper", about |-> topic,
                              url |-> "https://example.com/paper1",
                              relevance |-> Frac(95, 100)],
                             [title |-> "Industry Report", about |-> topic,
                              url |-> "https://example.com/report1",
                              relevance |-> Frac(87, 100)],
                             [title |-> "News Article", about |-> topic,
                              url |-> "https://example.com/news1",
                              relevance |-> Frac(78, 100)] >>,
         metadata     |-> [research_time    |-> "3.2 seconds",
                           sources_analyzed |-> 15,
                           model_used       |-> GetOr(config_dict, "research_model",
                                                      "mock-model"),
                           search_api       |-> GetOr(config_dict, "search_api",
                                                      "mock-search")]]

\* research_input and config of the call of deep_researcher.ainvoke
ResearchCall(topic, config) ==
    [messages     |-> << [role |-> "user", content |-> topic] >>,
     configurable |-> ConfigDict(config)]

\* values deep_researcher.ainvoke may return to run_research: a state with a
\* final report and raw notes, one with a final report and notes, one with
\* neither
ExternalResults ==
    { [final_report |-> [template |-> "external report"], raw_notes |-> << "note" >>],
      [final_report |-> [template |-> "external report"], notes |-> << "note" >>],
      [messages |-> "msgs"] }

\* "not result" is false; the values here are None and dicts that are not
\* empty
Truthy(value) == value # None

\* result.get("raw_notes", result.get("notes", []))
NotesOf(value) ==
    IF "raw_notes" \in DOMAIN value THEN value.raw_notes
    ELSE IF "notes" \in DOMAIN value THEN value.notes
    ELSE <<>>

\* what display_results prints before its questions
ResultsShown(value, topic) ==
    << [msg |-> "research results", topic |-> topic] >>
    \o (IF "final_report" \in DOMAIN value
        THEN << [msg |-> "final report", final_report |-> value.final_report] >>
        ELSE <<>>)

\* length of the topic part of the file name of save_results
InteractiveSlugLen == 50

\* safe_topic of save_results
ResearchSafeTopic(topic) ==
    LET kept     == SelectSeq(topic, LAMBDA c : IsAlnum(c) \/ c \in {" ", "-", "_"})
        stripped == RStrip(kept)
        replaced == [j \in 1..Len(stripped) |->
                        IF stripped[j] = " " THEN "_" ELSE stripped[j]]
    IN  Prefix(replaced, InteractiveSlugLen)

\* results_dir / f"research_{safe_topic}.md"
ResearchFilename(topic) ==
    [dir |-> "demo_results", prefix |-> "research",
     safe_topic |-> ResearchSafeTopic(Chars(topic)), ext |-> "md"]

\* content of save_results
ResearchContent(value, topic) ==
    << [block |-> "# Research Report", topic |-> topic],
       [block |-> "Generated by Open Deep Research"] >>
    \o (IF "final_report" \in DOMAIN value
        THEN << [block |-> "## Final Report", final_report |-> value.final_report] >>
        ELSE <<>>)
    \o (IF "raw_notes" \in DOMAIN value /\ value.raw_notes # <<>>
        THEN << [block |-> "## Research Notes", notes |-> value.raw_notes] >>
        ELSE <<>>)

\* messages of the exceptions a file system raises when a file is opened
FileErrors == {"[Errno 13] Permission denied"}

\* ----- InteractiveDemo.run_demo -------------------------------------------
\* iterations of the while loop of a run_demo that are explored
MaxIterations == 1

\* display_welcome and check_environment; run_demo returns when the check
\* fails
InteractiveStart ==
    LET checked == CheckEnvironment(FULL_SYSTEM_AVAILABLE, env)
    IN  /\ demo = "InteractiveDemo"
        /\ pc = "run_demo"
        /\ console' = << [msg |-> "welcome",
                          mode |-> IF ~FULL_SYSTEM_AVAILABLE THEN "Demo Mode (Mock)"
                                   ELSE "Full System"] >>
                      \o checked.printed
        /\ pc' = IF checked.returns THEN "select_configuration" ELSE "done"
        /\ UNCHANGED <<env, invocations, files>>
        /\ UNCHANGED comparisonVars
        /\ UNCHANGED demoVars

\* an iteration begins: select_configuration; a rejected answer is asked for
\* again
SelectConfiguration(answer) ==
    LET config_list == demo_configs
    IN  /\ demo = "InteractiveDemo"
        /\ pc = "select_configuration"
        /\ iterations < MaxIterations
        /\ IF Accepted(answer, Choices(Len(config_list)))
           THEN /\ research_config' = SelectedConfiguration(config_list, answer)
                /\ console' = << [msg |-> "available configurations",
                                  n |-> Len(config_list)] >>
                /\ prompts' = << [prompt |-> "Select configuration", answer |-> answer] >>
                /\ pc' = "get_research_topic"
           ELSE UNCHANGED <<research_config, console, prompts, pc>>
        /\ UNCHANGED <<env, invocations, files, demo, FULL_SYSTEM_AVAILABLE, demo_configs,
                       research_topic, research_result, iterations>>
        /\ UNCHANGED comparisonVars

\* get_research_topic
GetResearchTopic(use_example, answer, typed) ==
    /\ demo = "InteractiveDemo"
    /\ pc = "get_research_topic"
    /\ IF use_example /\ ~Accepted(answer, Choices(Len(Examples)))
       THEN UNCHANGED <<research_topic, console, prompts, pc>>
       ELSE /\ research_topic' = IF use_example THEN ExampleTopic(answer) ELSE typed
            /\ console' = Append(console, [msg |-> "example topics", n |-> Len(Examples)])
            /\ prompts' = prompts
                          \o << [prompt |-> "use an example topic", answer |-> use_example] >>
                          \o (IF use_example
                              THEN << [prompt |-> "Select example", answer |-> answer] >>
                              ELSE << [prompt |-> "Enter your research topic",
                                       answer |-> typed] >>)
            /\ pc' = "run_research"
    /\ UNCHANGED <<env, invocations, files, demo, FULL_SYSTEM_AVAILABLE, demo_configs,
                   research_config, research_result, iterations>>
    /\ UNCHANGED comparisonVars

\* what run_research prints first
ResearchAnnounced(topic, config) ==
    << [msg |-> "starting research", topic |-> topic],
       [msg |-> "configuration", model |-> config.research_model,
        search_api |-> config.search_api] >>

\* run_research in demo mode: _mock_research
RunMockResearch ==
    /\ demo = "InteractiveDemo"
    /\ pc = "run_research"
    /\ ~FULL_SYSTEM_AVAILABLE
    /\ console' = console \o ResearchAnnounced(research_topic, research_config)
    /\ research_result' = MockResearch(research_topic, research_config)
    /\ pc' = "display_results"
    /\ UNCHANGED <<env, invocations, files, demo, FULL_SYSTEM_AVAILABLE, demo_configs,
                   research_config, research_topic, prompts, iterations>>
    /\ UNCHANGED comparisonVars

\* run_research with the full system, up to the await of
\* deep_researcher.ainvoke
RunResearchStart ==
    /\ demo = "InteractiveDemo"
    /\ pc = "run_research"
    /\ FULL_SYSTEM_AVAILABLE
    /\ console' = console \o ResearchAnnounced(research_topic, research_config)
    /\ invocations' = Append(invocations, ResearchCall(research_topic, research_config))
    /\ pc' = "ainvoke"
    /\ UNCHANGED <<env, files>>
    /\ UNCHANGED comparisonVars
    /\ UNCHANGED demoVars

\* the awaited call returns
RunResearchReturns(value) ==
    /\ demo = "InteractiveDemo"
    /\ pc = "ainvoke"
    /\ research_result' = value
    /\ pc' = "display_results"
    /\ UNCHANGED <<env, invocations, files, console, demo, FULL_SYSTEM_AVAILABLE,
                   demo_configs, research_config, research_topic, prompts, iterations>>
    /\ UNCHANGED comparisonVars

\* the value of run_research when the awaited call raised
ErrorAsResult(e) == [error |-> PyStr(e)]

ResultAfterError(e) == None

\* the awaited call raises an Exception: the except clause of run_research
RunResearchRaises(e) ==
    /\ demo = "InteractiveDemo"
    /\ pc = "ainvoke"
    /\ console' = Append(console, [msg |-> "error during research", error |-> PyStr(e)])
    /\ research_result' = ResultAfterError(e)
    /\ pc' = "display_results"
    /\ UNCHANGED <<env, invocations, files, demo, FULL_SYSTEM_AVAILABLE, demo_configs,
                   research_config, research_topic, prompts, iterations>>
    /\ UNCHANGED comparisonVars

\* display_results, with save_results when the user asks for it; open() may
\* raise, and the except Exception clause of run_demo then prints the error
DisplayResults(show_notes, save_results, e) ==
    /\ demo = "InteractiveDemo"
    /\ pc = "display_results"
    /\ IF ~Truthy(research_result)
       THEN /\ pc' = "ask_another"
            /\ UNCHANGED <<console, prompts, files>>
       ELSE LET notes    == NotesOf(research_result)
                shown    == ResultsShown(research_result, research_topic)
                           \o (IF notes # <<>> /\ show_notes
                               THEN << [msg |-> "research notes", notes |-> notes] >>
                               ELSE <<>>)
                asked    == (IF notes # <<>>
                             THEN << [prompt |-> "see the research notes",
                                      answer |-> show_notes] >>
                             ELSE <<>>)
                            \o << [prompt |-> "save the results to a file",
                                   answer |-> save_results] >>
                filename == ResearchFilename(research_topic)
            IN  /\ prompts' = prompts \o asked
                /\ IF ~save_results
                   THEN /\ console' = console \o shown
                        /\ files' = files
                        /\ pc' = "ask_another"
                   ELSE IF e # None
                   THEN /\ console' = console \o shown
                                      \o << [msg |-> "unexpected error",
                                             error |-> PyStr(e)] >>
                        /\ files' = files
                        /\ pc' = "ask_continue"
                   ELSE /\ console' = console \o shown
                                      \o << [msg |-> "results saved",
                                             filename |-> filename] >>
                        /\ files' = Append(files,
                                           WrittenFile(filename,
                                                       ResearchContent(research_result,
                                                                       research_topic)))
                        /\ pc' = "ask_another"
    /\ UNCHANGED <<env, invocations, demo, FULL_SYSTEM_AVAILABLE, demo_configs,
                   research_config, research_topic, research_result, iterations>>
    /\ UNCHANGED comparisonVars

\* the head of the while loop of run_demo
LoopHead == IF demo = "InteractiveDemo" THEN "select_configuration" ELSE "menu"

\* the loop goes on after the answer to a Confirm.ask
NextIteration(answer) == IF answer THEN LoopHead ELSE "thanks"

\* "Would you like to conduct another research?"
AskAnother(answer) ==
    /\ demo = "InteractiveDemo"
    /\ pc = "ask_another"
    /\ prompts' = Append(prompts, [prompt |-> "conduct another research", answer |-> answer])
    /\ iterations' = iterations + 1
    /\ pc' = NextIteration(answer)
    /\ UNCHANGED <<env, invocations, files, console, demo, FULL_SYSTEM_AVAILABLE,
                   demo_configs, research_config, research_topic, research_result>>
    /\ UNCHANGED comparisonVars

\* the except Exception clause of run_demo: "Would you like to continue?"
AskContinue(answer) ==
    /\ pc = "ask_continue"
    /\ prompts' = Append(prompts, [prompt |-> "continue", answer |-> answer])
    /\ iterations' = iterations + 1
    /\ pc' = NextIteration(answer)
    /\ UNCHANGED <<env, invocations, files, console, demo, FULL_SYSTEM_AVAILABLE,
                   demo_configs, research_config, research_topic, research_result>>
    /\ UNCHANGED comparisonVars

\* after the loop
ThankYou ==
    /\ pc = "thanks"
    /\ console' = Append(console, [msg |-> "thank you", demo |-> demo])
    /\ pc' = "done"
    /\ UNCHANGED <<env, invocations, files>>
    /\ UNCHANGED comparisonVars
    /\ UNCHANGED demoVars

\* ----- evaluation_demo.py: EvaluationDemo ---------------------------------
\* _generate_sample_reports: what run_demo reads of the sample reports
SampleReports ==
    << [id |-> "report_1", topic |-> "AI in Climate Change Research",
        model |-> "openai:gpt-4o", search_api |-> "tavily"],
       [id |-> "report_2", topic |-> "AI in Climate Change Research",
        model |-> "anthropic:claude-3-5-sonnet-20241022",
        search_api |-> "anthropic_web_search"],
       [id |-> "report_3", topic |-> "Quantum Computing Applications",
        model |-> "openai:gpt-4o-mini", search_api |-> "tavily"] >>

ReportIds == {SampleReports[j].id : j \in 1..Len(SampleReports)}

\* the entries of the menus of EvaluationDemo.run_demo and MockDemo.run_demo
MenuOptions == 6

\* where a menu loop stands after an option that raised nothing: break on
\* "6", else the next iteration
AfterOptionLeavingOnFive(choice) == IF choice >= 5 THEN "thanks" ELSE "menu"

AfterOption(choice) == IF choice = 6 THEN "thanks" ELSE "menu"

\* display_welcome of EvaluationDemo and of MockDemo
MenuStart ==
    /\ demo \in {"EvaluationDemo", "MockDemo"}
    /\ pc = "run_demo"
    /\ console' = << [msg |-> "welcome", mode |-> demo] >>
    /\ pc' = "menu"
    /\ UNCHANGED <<env, invocations, files>>
    /\ UNCHANGED comparisonVars
    /\ UNCHANGED demoVars

\* [r for r in self.sample_reports if r["topic"] == topic]
ReportsOn(topic) == SelectSeq(SampleReports, LAMBDA r : r.topic = topic)

\* what compare_reports prints: one line per report evaluated
ComparisonShown(reports) ==
    << [msg |-> "report comparison analysis"] >>
    \o [j \in 1..Len(reports) |->
           [msg |-> "evaluating", report_id |-> reports[j].id, model |-> reports[j].model]]
    \o << [msg |-> "evaluation results", n |-> Len(reports)],
          [msg |-> "best performing report"] >>

\* export_evaluation_results: the file
EvaluationFilename ==
    [dir |-> "demo_results", prefix |-> "evaluation_results", ext |-> "json"]

\* export_data without the scores
ExportData(reports) ==
    [evaluation_summary |-> [total_reports |-> Len(reports)],
     detailed_results   |-> [j \in 1..Len(reports) |->
                                [report_id |-> reports[j].id, model |-> reports[j].model,
                                 search_api |-> reports[j].search_api]]]

\* what one iteration of EvaluationDemo.run_demo prints after the menu, for
\* an option that raises nothing
OptionShown(choice, report_id) ==
    CASE choice = 1 -> << [msg |-> "sample reports", n |-> Len(SampleReports)] >>
      [] choice = 2 -> << [msg |-> "sample reports", n |-> Len(SampleReports)],
                          [msg |-> "evaluation results for", report_id |-> report_id] >>
      [] choice = 3 ->
            IF Len(ReportsOn("AI in Climate Change Research")) >= 2
            THEN ComparisonShown(ReportsOn("AI in Climate Change Research"))
                 \o << [msg |-> "model performance analysis"] >>
            ELSE << [msg |-> "not enough reports"] >>
      [] choice = 4 -> << [msg |-> "model performance analysis"] >>
      [] choice = 5 -> << [msg |-> "generating comprehensive evaluation"],
                          [msg |-> "results exported", filename |-> EvaluationFilename] >>
      [] OTHER -> <<>>

\* one iteration of the loop of EvaluationDemo.run_demo; e is the exception
\* open() raises in export_evaluation_results, or None
EvaluationIteration(choice, report_id, e) ==
    /\ demo = "EvaluationDemo"
    /\ pc = "menu"
    /\ iterations < MaxIterations
    /\ IF ~Accepted(choice, Choices(MenuOptions))
       THEN UNCHANGED <<console, prompts, files, iterations, pc>>
       ELSE /\ prompts' = << [prompt |-> "Select an option", answer |-> choice] >>
                          \o (IF choice = 2
                              THEN << [prompt |-> "Select report ID to evaluate",
                                       answer |-> report_id] >>
                              ELSE <<>>)
            /\ IF choice = 5 /\ e # None
               THEN /\ console' = << [msg |-> "options"],
                                     [msg |-> "generating comprehensive evaluation"],
                                     [msg |-> "unexpected error", error |-> PyStr(e)] >>
                    /\ files' = files
                    /\ iterations' = iterations
                    /\ pc' = "ask_continue"
               ELSE /\ console' = << [msg |-> "options"] >> \o OptionShown(choice, report_id)
                    /\ files' = IF choice = 5
                                THEN Append(files, WrittenFile(EvaluationFilename,
                                                               ExportData(SampleReports)))
                                ELSE files
                    /\ iterations' = IF choice = 6 THEN iterations ELSE iterations + 1
                    /\ pc' = AfterOption(choice)
    /\ UNCHANGED <<env, invocations, demo, FULL_SYSTEM_AVAILABLE, demo_configs,
                   research_config, research_topic, research_result>>
    /\ UNCHANGED comparisonVars

\* ----- demo_runner.py: MockDemo --------------------------------------------
\* a JSON document of demo/configs: an object, or another JSON value
JsonObject(fields) == [json |-> "object", fields |-> fields]

JsonArray == [json |-> "array"]

\* self.demo_configs after _load_demo_configs: no directory; two documents;
\* three documents, one of them not an object
MockCatalogs ==
    { <<>>,
      << [key |-> "fast_research",
          value |-> JsonObject([name |-> "Fast Research", use_case |-> "Quick insights"])],
         [key |-> "academic_research",
          value |-> JsonObject([use_case |-> "Literature review"])] >>,
      << [key |-> "fast_research",
          value |-> JsonObject([name |-> "Fast Research", use_case |-> "Quick insights"])],
         [key |-> "notes", value |-> JsonArray],
         [key |-> "academic_research",
          value |-> JsonObject([use_case |-> "Literature review"])] >> }

\* list(self.demo_configs.keys())
ConfigChoices(catalog) == [j \in 1..Len(catalog) |-> catalog[j].key]

\* value.get(...) raises AttributeError unless value is a dict
GetRaises(value) == value.json # "object"

AttributeError == Exception("'list' object has no attribute 'get'")

\* the configurations a loop calling .get on each lists before .get raises
ListedBeforeError(catalog) ==
    SelectSeq(ConfigChoices(catalog),
              LAMBDA k : \A j \in 1..Len(catalog) :
                            GetRaises(catalog[j].value) =>
                               \E m \in 1..(j - 1) : catalog[m].key = k)

ListingRaises(catalog) == \E j \in 1..Len(catalog) : GetRaises(catalog[j].value)

\* self.demo_configs[config].get('name', config)
ConfigName(catalog, config_key) ==
    LET fields == DictGet(catalog, config_key).fields
    IN  IF "name" \in DOMAIN fields THEN fields.name ELSE config_key

\* topic_choices of run_demo
TopicChoices ==
    << "The impact of AI on climate change research",
       "Quantum computing applications in cryptography",
       "Sustainable energy solutions for urban environments",
       "Custom topic" >>

\* the topic for an accepted topic_choice
TopicOfChoice(topic_choice, typed) ==
    IF topic_choice = Len(TopicChoices) THEN typed ELSE TopicChoices[topic_choice]

\* config_choices[int(config_choice) - 1]
SelectedKey(config_choices, config_choice) == config_choices[config_choice]

UpperCase ==
    << "A", "B", "C", "D", "E", "F", "G", "H", "I", "J", "K", "L", "M",
       "N", "O", "P", "Q", "R", "S", "T", "U", "V", "W", "X", "Y", "Z" >>

LowerCase ==
    << "a", "b", "c", "d", "e", "f", "g", "h", "i", "j", "k", "l", "m",
       "n", "o", "p", "q", "r", "s", "t", "u", "v", "w", "x", "y", "z" >>

\* str.lower() on ASCII text
Lower(s) ==
    [j \in 1..Len(s) |->
        IF \E k \in 1..Len(UpperCase) : UpperCase[k] = s[j]
        THEN LowerCase[CHOOSE k \in 1..Len(UpperCase) : UpperCase[k] = s[j]]
        ELSE s[j]]

\* sub in s
Contains(s, sub) ==
    \E k \in 1..(Len(s) - Len(sub) + 1) : SubSeq(s, k, k + Len(sub) - 1) = sub

\* result_key of simulate_research
ResultKey(topic) ==
    IF \/ Contains(Lower(Chars(topic)), << "c", "l", "i", "m", "a", "t", "e" >>)
       \/ Contains(Lower(Chars(topic)), << "a", "i" >>)
    THEN "ai_climate_change"
    ELSE "quantum_computing"

\* the value simulate_research returns
SimulateResearch(topic, config_key) ==
    [final_report |-> [sample |-> ResultKey(topic)],
     notes        |-> << "Research conducted using simulated API calls",
                         "Sources include academic papers, reports, and technical documentation",
                         "Analysis performed using advanced AI reasoning" >>,
     config_used  |-> config_key,
     simulation   |-> TRUE]

\* what simulate_research and display_research_results print
SimulationShown(catalog, topic, config_key, value, show_notes) ==
    << [msg |-> "simulating research", topic |-> topic],
       [msg |-> "using configuration", name |-> ConfigName(catalog, config_key)],
       [msg |-> "research results", topic |-> topic],
       [msg |-> "generated report", final_report |-> value.final_report] >>
    \o (IF show_notes THEN << [msg |-> "research notes", notes |-> value.notes] >> ELSE <<>>)
    \o << [msg |-> "simulated research process"] >>

\* what display_configuration_details prints first
DetailsShown(catalog, config_key) ==
    << [msg |-> "configuration details", name |-> ConfigName(catalog, config_key),
        config |-> DictGet(catalog, config_key).fields] >>

\* one iteration of the loop of MockDemo.run_demo
MockIteration(choice, config_choice, topic_choice, typed, show_notes) ==
    LET config_choices  == ConfigChoices(demo_configs)
        selected_config == SelectedKey(config_choices, config_choice)
        topic           == TopicOfChoice(topic_choice, typed)
        menu            == << [msg |-> "options"] >>
        ask_option      == << [prompt |-> "Select an option", answer |-> choice] >>
        ask_topic       == << [prompt |-> "Select topic", answer |-> topic_choice] >>
                           \o (IF topic_choice = Len(TopicChoices)
                               THEN << [prompt |-> "Enter your custom research topic",
                                        answer |-> typed] >>
                               ELSE <<>>)
        ask_config      == << [prompt |-> "Select configuration", answer |-> config_choice] >>
        error           == << [msg |-> "error", error |-> PyStr(AttributeError)] >>
        listed          == << [msg |-> "configurations listed",
                               keys |-> ListedBeforeError(demo_configs)] >>
    IN  /\ demo = "MockDemo"
        /\ pc = "menu"
        /\ iterations < MaxIterations
        /\ IF \/ ~Accepted(choice, Choices(MenuOptions))
              \/ /\ choice \in {2, 3}
                 /\ demo_configs # <<>>
                 /\ ~ListingRaises(demo_configs)
                 /\ ~Accepted(config_choice, Choices(Len(config_choices)))
              \/ /\ choice = 3
                 /\ demo_configs # <<>>
                 /\ ~Accepted(topic_choice, Choices(Len(TopicChoices)))
           THEN UNCHANGED <<console, prompts, research_config, research_topic,
                            research_result, iterations, pc>>
           ELSE /\ iterations' = IF choice = 6 THEN iterations ELSE iterations + 1
                /\ pc' = AfterOption(choice)
                /\ CASE choice = 1 ->
                          /\ console' = menu \o << [msg |-> "available configurations"] >>
                                        \o (IF ListingRaises(demo_configs) THEN error
                                            ELSE << [msg |-> "configurations table",
                                                     keys |-> config_choices] >>)
                          /\ prompts' = ask_option
                          /\ UNCHANGED <<research_config, research_topic, research_result>>
                     [] choice = 2 /\ demo_configs = <<>> ->
                          /\ console' = menu \o << [msg |-> "no configurations for analysis"] >>
                          /\ prompts' = ask_option
                          /\ UNCHANGED <<research_config, research_topic, research_result>>
                     [] choice = 2 /\ demo_configs # <<>> /\ ListingRaises(demo_configs) ->
                          /\ console' = menu \o listed \o error
                          /\ prompts' = ask_option
                          /\ UNCHANGED <<research_config, research_topic, research_result>>
                     [] choice = 2 /\ demo_configs # <<>> /\ ~ListingRaises(demo_configs) ->
                          /\ console' = menu \o listed
                                        \o DetailsShown(demo_configs, selected_config)
                          /\ prompts' = ask_option \o ask_config
                          /\ research_config' = selected_config
                          /\ UNCHANGED <<research_topic, research_result>>
                     [] choice = 3 /\ demo_configs = <<>> ->
                          /\ console' = menu \o << [msg |-> "no configurations for simulation"] >>
                          /\ prompts' = ask_option
                          /\ UNCHANGED <<research_config, research_topic, research_result>>
                     [] choice = 3 /\ demo_configs # <<>> /\ ListingRaises(demo_configs) ->
                          /\ console' = menu \o << [msg |-> "topics", n |-> Len(TopicChoices)] >>
                                        \o listed \o error
                          /\ prompts' = ask_option \o ask_topic
                          /\ research_topic' = topic
                          /\ UNCHANGED <<research_config, research_result>>
                     [] choice = 3 /\ demo_configs # <<>> /\ ~ListingRaises(demo_configs) ->
                          /\ console' = menu \o << [msg |-> "topics", n |-> Len(TopicChoices)] >>
                                        \o listed
                                        \o SimulationShown(demo_configs, topic, selected_config,
                                                           SimulateResearch(topic, selected_config),
                                                           show_notes)
                          /\ prompts' = ask_option \o ask_topic \o ask_config
                                        \o << [prompt |-> "see the research notes",
                                               answer |-> show_notes] >>
                          /\ research_topic' = topic
                          /\ research_config' = selected_config
                          /\ research_result' = SimulateResearch(topic, selected_config)
                     [] choice = 4 ->
                          /\ console' = menu \o << [msg |-> "model comparison demo"] >>
                          /\ prompts' = ask_option
                          /\ UNCHANGED <<research_config, research_topic, research_result>>
                     [] choice = 5 ->
                          /\ console' = menu \o << [msg |-> "key features demonstration"] >>
                          /\ prompts' = ask_option
                          /\ UNCHANGED <<research_config, research_topic, research_result>>
                     [] choice = 6 ->
                          /\ console' = menu
                          /\ prompts' = ask_option
                          /\ UNCHANGED <<research_config, research_topic, research_result>>
        /\ UNCHANGED <<env, invocations, files, demo, FULL_SYSTEM_AVAILABLE, demo_configs>>
        /\ UNCHANGED comparisonVars

\* ----- KeyboardInterrupt in the loops of the demos ---------------------------
\* what the head of an iteration prints before its first prompt
HeadShown ==
    IF demo = "InteractiveDemo"
    THEN << [msg |-> "available configurations", n |-> Len(demo_configs)] >>
    ELSE << [msg |-> "options"] >>

\* the except KeyboardInterrupt clause of a run_demo: the message; break
InterruptedShown == << [msg |-> "interrupted"] >>

\* InteractiveDemo: the states of the try block in which a prompt is open
AtPrompt ==
    \/ pc \in {"select_configuration", "get_research_topic", "ask_another"}
    \/ pc = "display_results" /\ Truthy(research_result)

\* KeyboardInterrupt at a prompt of the try block of InteractiveDemo.run_demo
InteractiveInterrupted ==
    /\ demo = "InteractiveDemo"
    /\ AtPrompt
    /\ IF pc = LoopHead
       THEN /\ console' = HeadShown \o InterruptedShown
            /\ prompts' = <<>>
       ELSE /\ console' = console \o InterruptedShown
            /\ prompts' = prompts
    /\ pc' = "thanks"
    /\ UNCHANGED <<env, invocations, files, demo, FULL_SYSTEM_AVAILABLE, demo_configs,
                   research_config, research_topic, research_result, iterations>>
    /\ UNCHANGED comparisonVars

\* the options of a menu that ask a further question, and what they print
\* before it
PrintedBeforeQuestion(choice) ==
    CASE demo = "EvaluationDemo" /\ choice = 2 ->
            << [msg |-> "sample reports", n |-> Len(SampleReports)] >>
      [] demo = "MockDemo" /\ choice = 2 ->
            << [msg |-> "configurations listed", keys |-> ConfigChoices(demo_configs)] >>
      [] demo = "MockDemo" /\ choice = 3 ->
            << [msg |-> "topics", n |-> Len(TopicChoices)] >>
      [] OTHER -> << >>

AsksFurther(choice) ==
    \/ demo = "EvaluationDemo" /\ choice = 2
    \/ demo = "MockDemo" /\ choice = 2 /\ demo_configs # <<>> /\ ~ListingRaises(demo_configs)
    \/ demo = "MockDemo" /\ choice = 3 /\ demo_configs # <<>>

\* KeyboardInterrupt at a prompt of an iteration of EvaluationDemo.run_demo
\* or MockDemo.run_demo: at the menu (choice 0) or at the first question of
\* the option chosen
MenuInterrupted(choice) ==
    /\ demo \in {"EvaluationDemo", "MockDemo"}
    /\ pc = "menu"
    /\ choice = 0 \/ AsksFurther(choice)
    /\ console' = HeadShown \o PrintedBeforeQuestion(choice) \o InterruptedShown
    /\ prompts' = IF choice = 0 THEN <<>>
                  ELSE << [prompt |-> "Select an option", answer |-> choice] >>
    /\ pc' = "thanks"
    /\ UNCHANGED <<env, invocations, files, demo, FULL_SYSTEM_AVAILABLE, demo_configs,
                   research_config, research_topic, research_result, iterations>>
    /\ UNCHANGED comparisonVars

\* where run_demo stands after a KeyboardInterrupt at "Would you like to
\* continue?": the question is asked inside the except Exception clause, and
\* the except KeyboardInterrupt clause of the same try statement does not
\* cover it
AfterContinueInterrupted == "raised"

ContinueInterrupted ==
    /\ pc = "ask_continue"
    /\ pc' = AfterContinueInterrupted
    /\ UNCHANGED <<env, invocations, files, console>>
    /\ UNCHANGED comparisonVars
    /\ UNCHANGED demoVars

\* ----- the interactive demos as one specification --------------------------
Demos == {"InteractiveDemo", "EvaluationDemo", "MockDemo"}

\* the environments a demo is started in: check_environment reads the
\* environment only with the full system; in demo mode the demo is started
\* with none of the keys and with all of them
Environments ==
    IF demo = "InteractiveDemo"
    THEN IF FULL_SYSTEM_AVAILABLE THEN SUBSET InteractiveApiKeys
         ELSE {{}, InteractiveApiKeys}
    ELSE {{}}

DemoInit ==
    /\ demo \in Demos
    /\ FULL_SYSTEM_AVAILABLE \in (IF demo = "InteractiveDemo" THEN BOOLEAN ELSE {FALSE})
    /\ env \in Environments
    /\ demo_configs \in (CASE demo = "InteractiveDemo" -> {LoadDemoConfigs}
                           [] demo = "MockDemo" -> MockCatalogs
                           [] OTHER -> {<<>>})
    /\ research_config = None
    /\ research_topic = None
    /\ research_result = None
    /\ prompts = <<>>
    /\ iterations = 0
    /\ pc = "run_demo"
    /\ invocations = <<>>
    /\ files = <<>>
    /\ console = <<>>
    /\ comparison_configs = <<>>
    /\ i = 1
    /\ results = <<>>
    /\ outstanding = {}
    /\ outcomes = <<>>
    /\ analysis = None
    /\ json_data = None
    /\ now = 0

DemoNext ==
    \/ InteractiveStart
    \/ /\ pc = "select_configuration"
       /\ \E answer \in Answers(Len(demo_configs)) : SelectConfiguration(answer)
    \/ /\ pc = "get_research_topic"
       /\ \E use_example \in BOOLEAN, answer \in Answers(Len(Examples)),
             typed \in TypedTopics :
             GetResearchTopic(use_example, answer, typed)
    \/ RunMockResearch
    \/ RunResearchStart
    \/ /\ pc = "ainvoke"
       /\ \E value \in ExternalResults : RunResearchReturns(value)
    \/ /\ pc = "ainvoke"
       /\ \E message \in ErrorMessages : RunResearchRaises(Exception(message))
    \/ /\ pc = "display_results"
       /\ \E show_notes, save_results \in BOOLEAN,
             e \in {None} \cup {Exception(message) : message \in FileErrors} :
             DisplayResults(show_notes, save_results, e)
    \/ /\ pc = "ask_another"
       /\ \E answer \in BOOLEAN : AskAnother(answer)
    \/ /\ pc = "ask_continue"
       /\ \E answer \in BOOLEAN : AskContinue(answer)
    \/ ThankYou
    \/ InteractiveInterrupted
    \/ ContinueInterrupted
    \/ /\ pc = "menu"
       /\ \E choice \in 0..MenuOptions : MenuInterrupted(choice)
    \/ MenuStart
    \/ /\ demo = "EvaluationDemo" /\ pc = "menu"
       /\ \E choice \in Answers(MenuOptions), report_id \in ReportIds,
             e \in {None} \cup {Exception(message) : message \in FileErrors} :
             EvaluationIteration(choice, report_id, e)
    \/ /\ demo = "MockDemo" /\ pc = "menu"
       /\ \E choice \in Answers(MenuOptions),
             config_choice \in Answers(Len(demo_configs)),
             topic_choice \in Answers(Len(TopicChoices)), typed \in TypedTopics,
             show_notes \in BOOLEAN :
             MockIteration(choice, config_choice, topic_choice, typed, show_notes)

DemoSpec == DemoInit /\ [][DemoNext]_vars


\* ----- the file-name slugs as functions of the topic -------------------------
\* characters a topic is made of: letters, a digit, and the characters the
\* sanitization replaces, keeps or drops
TopicAlphabet == {"a", "Z", "7", " ", "-", "_", ".", "/"}

\* a topic is a run of letters followed by at most MaxTailLen characters of
\* TopicAlphabet
MaxTailLen == 3

Tails == UNION {[1..n -> TopicAlphabet] : n \in 0..MaxTailLen}

\* lengths of the run of letters: none, and those that put the tail across
\* the cut of either slug
RunLengths ==
    {0} \cup ((ComparisonSlugLen - 2)..ComparisonSlugLen)
        \cup ((InteractiveSlugLen - 2)..InteractiveSlugLen)

Topics == {[j \in 1..n |-> "x"] \o tail : n \in RunLengths, tail \in Tails}

SlugInit ==
    /\ env = {}
    /\ comparison_configs = <<>>
    /\ pc = "topic"
    /\ i = 1
    /\ results = <<>>
    /\ invocations = <<>>
    /\ outstanding = {}
    /\ outcomes = <<>>
    /\ analysis = None
    /\ json_data = None
    /\ files = <<>>
    /\ console = <<>>
    /\ now = 0
    /\ demo = "ModelComparisonDemo"
    /\ FULL_SYSTEM_AVAILABLE = TRUE
    /\ demo_configs = <<>>
    /\ research_config = None
    /\ research_topic \in Topics
    /\ research_result = None
    /\ prompts = <<>>
    /\ iterations = 0

\* save_comparison_results: safe_topic, and safe_topic of safe_topic
ComparisonSlug ==
    /\ pc = "topic"
    /\ research_result' = [safe_topic |-> SafeTopic(research_topic),
                           again      |-> SafeTopic(SafeTopic(research_topic))]
    /\ pc' = "save_comparison_results"
    /\ UNCHANGED <<env, invocations, files, console, demo, FULL_SYSTEM_AVAILABLE,
                   demo_configs, research_config, research_topic, prompts, iterations>>
    /\ UNCHANGED comparisonVars

\* InteractiveDemo.save_results: safe_topic, and safe_topic of safe_topic
InteractiveSlug ==
    /\ pc = "topic"
    /\ research_result' = [safe_topic |-> ResearchSafeTopic(research_topic),
                           again      |-> ResearchSafeTopic(ResearchSafeTopic(research_topic))]
    /\ pc' = "save_results"
    /\ UNCHANGED <<env, invocations, files, console, demo, FULL_SYSTEM_AVAILABLE,
                   demo_configs, research_config, research_topic, prompts, iterations>>
    /\ UNCHANGED comparisonVars

SlugNext == ComparisonSlug \/ InteractiveSlug

SlugSpec == SlugInit /\ [][SlugNext]_vars


\* ----- EvaluationDemo.evaluate_report_quality ------------------------------
RECURSIVE GCD(_, _)
GCD(a, b) == IF b = 0 THEN a ELSE GCD(b, a % b)

\* a + b, in lowest terms
FracAdd(a, b) ==
    LET n == a.num * b.den + b.num * a.den
        d == a.den * b.den
        g == GCD(n, d)
    IN  IF n = 0 THEN Frac(0, 1) ELSE Frac(n \div g, d \div g)

\* a <= b for fractions with positive denominators
FracLeq(a, b) == a.num * b.den <= b.num * a.den

\* min(a, b)
FracMin(a, b) == IF FracLeq(b, a) THEN b ELSE a

\* the report length and the number of sources that give the full score
FullLength == 1000

FullSources == 20

\* report_length / 1000, without the cap
ComprehensivenessUncapped(report_length) == Frac(report_length, FullLength)

Comprehensiveness(report_length) == FracMin(Frac(1, 1), Frac(report_length, FullLength))

SourceDiversity(sources) == FracMin(Frac(1, 1), Frac(sources, FullSources))

\* random.uniform(lo, hi) for bounds given in hundredths: a value N with
\* lo <= N <= hi; the two ends and the middle
Uniform(lo, hi) == {Frac(lo, 100), Frac((lo + hi) \div 2, 100), Frac(hi, 100)}

\* the dict evaluate_report_quality returns
Evaluation(report, structure_quality, accuracy_score, clarity_score) ==
    LET comprehensiveness == Comprehensiveness(report.report_length)
        source_diversity  == SourceDiversity(report.sources_count)
        total == FracAdd(FracAdd(FracAdd(FracAdd(comprehensiveness, source_diversity),
                                         structure_quality),
                                 accuracy_score),
                         clarity_score)
    IN  [comprehensiveness |-> comprehensiveness,
         source_diversity  |-> source_diversity,
         structure_quality |-> structure_quality,
         accuracy          |-> accuracy_score,
         clarity           |-> clarity_score,
         overall_score     |-> Frac(total.num, 5 * total.den)]

\* len(final_report) and sources_count of the three sample reports
SampleReportSizes ==
    {[report_length |-> 781, sources_count |-> 15],
     [report_length |-> 843, sources_count |-> 12],
     [report_length |-> 456, sources_count |-> 8]}

\* how far the reports evaluated go beyond the full length and the full
\* number of sources
MaxExcess == 1

\* the reports evaluate_report_quality is called with: the sample reports,
\* an empty report without sources, and reports around either cap
EvaluatedReports ==
    SampleReportSizes
    \cup {[report_length |-> n, sources_count |-> m] :
              n \in {0} \cup ((FullLength - 1)..(FullLength + MaxExcess)),
              m \in {0} \cup ((FullSources - 1)..(FullSources + MaxExcess))}

EvaluateInit ==
    /\ env = {}
    /\ comparison_configs = <<>>
    /\ pc = "evaluate_report_quality"
    /\ i = 1
    /\ results = <<>>
    /\ invocations = <<>>
    /\ outstanding = {}
    /\ outcomes = <<>>
    /\ analysis = None
    /\ json_data = None
    /\ files = <<>>
    /\ console = <<>>
    /\ now = 0
    /\ demo = "EvaluationDemo"
    /\ FULL_SYSTEM_AVAILABLE = FALSE
    /\ demo_configs = <<>>
    /\ research_config \in EvaluatedReports
    /\ research_topic = None
    /\ research_result = None
    /\ prompts = <<>>
    /\ iterations = 0

\* evaluation = self.evaluate_report_quality(report)
EvaluateReportQuality(structure_quality, accuracy_score, clarity_score) ==
    /\ pc = "evaluate_report_quality"
    /\ research_result' = Evaluation(research_config, structure_quality, accuracy_score,
                                     clarity_score)
    /\ pc' = "evaluated"
    /\ UNCHANGED <<env, invocations, files, console, demo, FULL_SYSTEM_AVAILABLE,
                   demo_configs, research_config, research_topic, prompts, iterations>>
    /\ UNCHANGED comparisonVars

EvaluateNext ==
    /\ pc = "evaluate_report_quality"
    /\ \E structure_quality \in Uniform(70, 95), accuracy_score \in Uniform(75, 92),
          clarity_score \in Uniform(80, 95) :
          EvaluateReportQuality(structure_quality, accuracy_score, clarity_score)

EvaluateSpec == EvaluateInit /\ [][EvaluateNext]_vars


\* ----- properties ----------------------------------------------------------
\* a user interrupt ended the comparison: run_demo is over and the last call
\* neither returned nor raised an Exception
Interrupted == pc \in {"done", "raised"} /\ Len(invocations) > Len(outcomes)

\* run_comparison_research has returned to run_demo
Returned == analysis # None

SuccessPositions == {j \in 1..Len(results) : results[j].success}

FailurePositions == {j \in 1..Len(results) : ~results[j].success}

\* C1: when the research call for a configuration raises an exception, a
\* record with success = false, result = None, error = str(e) and the measured
\* duration is appended for that configuration, and the loop goes on: it
\* stands at the next configuration, it never ends run_demo, and when it
\* returns every later configuration was run.
C1_FailureRecordedAndLoopContinues ==
    ~Interrupted =>
        /\ \A j \in 1..Len(outcomes) :
              outcomes[j].raised =>
                 /\ j <= Len(results)
                 /\ outcomes[j].position <= Len(comparison_configs)
                 /\ results[j].success = FALSE
                 /\ results[j].result = None
                 /\ results[j].error = Str(outcomes[j].value.message)
                 /\ results[j].duration = outcomes[j].elapsed
                 /\ results[j].config_name = comparison_configs[outcomes[j].position].name
                 /\ pc = "loop" /\ j = Len(outcomes) => i = outcomes[j].position + 1
                 /\ Returned =>
                       \A k \in (outcomes[j].position + 1)..Len(comparison_configs) :
                          \E m \in 1..Len(invocations) : invocations[m] = k
        /\ pc = "done" /\ comparison_configs # <<>> => Returned

\* a call raised, a later call was run, and the comparison returned
C1_Witness ==
    /\ ~Interrupted
    /\ Returned
    /\ \E j \in 1..Len(outcomes) : outcomes[j].raised /\ j < Len(outcomes)

\* C2: for every pattern of success and failure, run_comparison_research
\* returns exactly one record per configuration, in catalog order, and
\* record j carries the config_name and provider of configuration j.
C2_OneRecordPerConfigInOrder ==
    Returned =>
        /\ Len(results) = Len(comparison_configs)
        /\ \A j \in 1..Len(results) :
              /\ j <= Len(comparison_configs)
              /\ results[j].config_name = comparison_configs[j].name
              /\ results[j].provider = comparison_configs[j].provider

\* returned with at least three records, one of a failed and one of a
\* successful run
C2_Witness ==
    /\ Returned
    /\ Len(results) >= 3
    /\ SuccessPositions # {}
    /\ FailurePositions # {}

\* C3: no retry: the external research entry point is called at most once
\* per configuration; when run_comparison_research returns it was called
\* exactly once for each, so the calls number the configurations.
C3_InvokedOncePerConfig ==
    /\ \A a, b \in 1..Len(invocations) : a # b => invocations[a] # invocations[b]
    /\ Returned =>
          /\ Len(invocations) = Len(comparison_configs)
          /\ \A k \in 1..Len(comparison_configs) :
                Cardinality({m \in 1..Len(invocations) : invocations[m] = k}) = 1

\* returned after a call that raised and a call that succeeded
C3_Witness ==
    /\ Returned
    /\ \E j \in 1..Len(outcomes) : outcomes[j].raised
    /\ \E j \in 1..Len(outcomes) : ~outcomes[j].raised
    /\ Len(invocations) >= 2

\* C4: at most one research call is outstanding at any time, and while the
\* call for a configuration is outstanding every earlier call has returned
\* or raised and its record has been appended.
C4_OneCallAtATime ==
    /\ Cardinality(outstanding) <= 1
    /\ pc = "await" =>
          /\ outstanding = {invocations[Len(invocations)]}
          /\ Len(outcomes) = Len(invocations) - 1
          /\ Len(results) = Len(invocations) - 1
    /\ pc # "await" => outstanding = {}

\* the call for the second or a later configuration is outstanding
C4_Witness ==
    /\ pc = "await"
    /\ Len(invocations) >= 2
    /\ Len(results) = Len(invocations) - 1


JsonTopKeys == {"topic", "timestamp", "analysis", "results"}

JsonResultKeys == {"config_name", "provider", "duration", "success", "error", "report_length"}

\* C5: json_data has exactly the keys topic, timestamp, analysis, results;
\* results has one entry per run result, in order, each with exactly the six
\* fields config_name, provider, duration, success, error, report_length, the
\* first five copied from the run result; report_length is the length of
\* final_report for a successful run that has one, and 0 otherwise.
C5_JsonDocumentSchema ==
    json_data # None =>
        /\ DOMAIN json_data = JsonTopKeys
        /\ Len(json_data.results) = Len(results)
        /\ \A j \in 1..Len(json_data.results) :
              LET entry == json_data.results[j]
                  run   == results[j]
              IN  /\ DOMAIN entry = JsonResultKeys
                  /\ entry.config_name = run.config_name
                  /\ entry.provider = run.provider
                  /\ entry.duration = run.duration
                  /\ entry.success = run.success
                  /\ entry.error = run.error
                  /\ entry.report_length =
                        IF /\ run.success
                           /\ run.result # None
                           /\ "final_report" \in DOMAIN run.result
                        THEN Len(run.result.final_report)
                        ELSE 0
                  /\ ~run.success => entry.report_length = 0

\* a document with a failed run, a successful run without final_report and
\* a successful run with a final_report of three characters
C5_Witness ==
    /\ json_data # None
    /\ \E j \in 1..Len(json_data.results) : ~json_data.results[j].success
    /\ \E j \in 1..Len(json_data.results) :
          /\ json_data.results[j].success
          /\ "final_report" \notin DOMAIN results[j].result
          /\ json_data.results[j].report_length = 0
    /\ \E j \in 1..Len(json_data.results) : json_data.results[j].report_length = 3

\* C6: what save_comparison_results hands to the JSON serializer holds no
\* Configuration object and no raw research result, also not through the
\* analysis value, so that json.dump does not fail on them.
C6_JsonDataSerializable ==
    json_data # None =>
        /\ ConfigurationObjectsIn(json_data) = {}
        /\ RawResultsIn(json_data) = {}
        /\ ~JsonDumpRaises(json_data)

CompleteFiles(ext) ==
    {k \in 1..Len(files) : files[k].name.ext = ext /\ files[k].complete}

CompletionPrinted == \E j \in 1..Len(console) : console[j].msg = "completed demo"

\* C7: for a non-empty catalog and no interrupt, run_demo ends with a JSON
\* file and a Markdown file written, whose names carry the same sanitized
\* topic and the same timestamp, and with the completion message printed
\* after them; the completion message is never printed unless both files
\* were written.
C7_BothFilesThenCompletion ==
    /\ pc = "done" /\ comparison_configs # <<>> /\ ~Interrupted =>
          /\ \E a \in CompleteFiles("json"), b \in CompleteFiles("md") :
                /\ files[a].name.safe_topic = SafeTopic(DemoTopic)
                /\ files[b].name.safe_topic = files[a].name.safe_topic
                /\ files[b].name.timestamp = files[a].name.timestamp
          /\ CompletionPrinted
    /\ CompletionPrinted => CompleteFiles("json") # {} /\ CompleteFiles("md") # {}

\* the blocks of a Markdown document: Summary with the counts and the average
\* duration of the analysis, one subsection per run result in result order,
\* then Analysis
MarkdownWellFormed(content) ==
    /\ Len(content) = Len(results) + 5
    /\ content[3].block = "## Summary"
    /\ content[3].total_configs = Len(results)
    /\ content[3].successful_runs = Cardinality(SuccessPositions)
    /\ content[3].failed_runs = Cardinality(FailurePositions)
    /\ content[3].average_duration = Format1f(analysis.average_duration)
    /\ \A j \in 1..Len(results) :
          /\ content[4 + j].block = "### configuration"
          /\ content[4 + j].config_name = results[j].config_name
    /\ content[Len(content)].block = "## Analysis"

\* C8: for every result list save_comparison_results is called with, the
\* Markdown export consists of a Summary section, exactly one subsection per
\* run result in result order, and an Analysis section.
C8_MarkdownExport ==
    json_data # None =>
        \E k \in CompleteFiles("md") : MarkdownWellFormed(files[k].content)

ProvidersIn(rs) == {rs[j].provider : j \in 1..Len(rs)}

RunsOf(provider) == {j \in 1..Len(results) : results[j].provider = provider}

\* C9 as stated: every provider that occurs in the run results has an entry
\* of provider_performance whose success_rate is its number of successful
\* runs divided by its number of runs.
C9_EveryProviderHasSuccessRate ==
    Returned =>
        \A provider \in ProvidersIn(results) :
           /\ provider \in DictKeys(analysis.provider_performance)
           /\ FracEq(DictGet(analysis.provider_performance, provider).success_rate,
                     Frac(Cardinality(RunsOf(provider) \cap SuccessPositions),
                          Cardinality(RunsOf(provider))))

\* C9 amended: provider_performance has an entry exactly for the providers
\* with at least one successful run, and the success_rate of each is its
\* number of successful runs divided by its number of runs.
C9_SuccessRateOfSuccessfulProviders ==
    Returned =>
        /\ DictKeys(analysis.provider_performance) =
              {provider \in ProvidersIn(results) : RunsOf(provider) \cap SuccessPositions # {}}
        /\ \A provider \in DictKeys(analysis.provider_performance) :
              FracEq(DictGet(analysis.provider_performance, provider).success_rate,
                     Frac(Cardinality(RunsOf(provider) \cap SuccessPositions),
                          Cardinality(RunsOf(provider))))

\* one provider with a successful and a failed run, another provider whose
\* runs all failed
C9_Witness ==
    /\ Returned
    /\ \E provider \in ProvidersIn(results) :
          /\ RunsOf(provider) \cap SuccessPositions # {}
          /\ RunsOf(provider) \cap FailurePositions # {}
    /\ \E provider \in ProvidersIn(results) : RunsOf(provider) \cap SuccessPositions = {}

\* C10: fastest_config is a successful run no slower than any successful run,
\* slowest_config a successful run no faster than any successful run; a
\* failed run is never chosen; both are None exactly when no run succeeded.
C10_FastestAndSlowest ==
    Returned =>
        /\ (analysis.fastest_config = None) <=> (SuccessPositions = {})
        /\ (analysis.slowest_config = None) <=> (SuccessPositions = {})
        /\ SuccessPositions # {} =>
              /\ \E j \in SuccessPositions : results[j] = analysis.fastest_config
              /\ \E j \in SuccessPositions : results[j] = analysis.slowest_config
              /\ \A j \in SuccessPositions :
                    /\ analysis.fastest_config.duration <= results[j].duration
                    /\ analysis.slowest_config.duration >= results[j].duration

\* two runs succeeded and a failed run is faster than the fastest_config
C10_Witness ==
    /\ Returned
    /\ Cardinality(SuccessPositions) >= 2
    /\ \E j \in FailurePositions : results[j].duration < analysis.fastest_config.duration


\* ----- analyze_results: report lengths and counts ------------------------
\* the successful runs that have a final_report
ReportPositions == {j \in SuccessPositions : HasFinalReport(results[j])}

RECURSIVE SumOfReportLengths(_)
SumOfReportLengths(S) ==
    IF S = {} THEN 0
    ELSE LET j == CHOOSE k \in S : TRUE
         IN  ReportLength(results[j]) + SumOfReportLengths(S \ {j})

RECURSIVE SumOfDurations(_)
SumOfDurations(S) ==
    IF S = {} THEN 0
    ELSE LET j == CHOOSE k \in S : TRUE
         IN  results[j].duration + SumOfDurations(S \ {j})

\* C11: for every provider with at least one successful run,
\* average_report_length is the mean of the final_report lengths over that
\* provider's successful runs that have a final_report, and 0 when it has no
\* such run; longest_report and shortest_report are successful runs with a
\* final_report of maximal and minimal length, and None when no successful
\* run has a final_report.
C11_ReportLengthStatistics ==
    analysis # None =>
        /\ \A provider \in ProvidersIn(results) :
              RunsOf(provider) \cap SuccessPositions # {} =>
                 /\ provider \in DictKeys(analysis.provider_performance)
                 /\ LET average == DictGet(analysis.provider_performance,
                                           provider).average_report_length
                        S       == RunsOf(provider) \cap ReportPositions
                    IN  IF S = {}
                        THEN average.num = 0 /\ average.den > 0
                        ELSE FracEq(average,
                                    Frac(SumOfReportLengths(S), Cardinality(S)))
        /\ IF ReportPositions = {}
           THEN /\ analysis.longest_report = None
                /\ analysis.shortest_report = None
           ELSE /\ \E j \in ReportPositions : results[j] = analysis.longest_report
                /\ \E j \in ReportPositions : results[j] = analysis.shortest_report
                /\ \A j \in ReportPositions :
                      /\ ReportLength(analysis.longest_report) >= ReportLength(results[j])
                      /\ ReportLength(analysis.shortest_report) <= ReportLength(results[j])

\* analysed: a provider with two successful runs whose final reports differ
\* in length
C11_Witness ==
    /\ analysis # None
    /\ \E a, b \in ReportPositions :
          /\ results[a].provider = results[b].provider
          /\ ReportLength(results[a]) < ReportLength(results[b])
          /\ analysis.longest_report = results[b]
          /\ analysis.shortest_report = results[a]

\* C17: total_configs = successful_configs + failed_configs = the number of
\* run results; no quotient of the analysis has the divisor 0;
\* average_duration is the mean duration of the successful runs, and 0 when
\* no run succeeded; for every result list, the empty one and the all-failed
\* one included.
C17_CountsAndAverageDuration ==
    analysis # None =>
        /\ analysis.total_configs = Len(results)
        /\ analysis.successful_configs = Cardinality(SuccessPositions)
        /\ analysis.failed_configs = Cardinality(FailurePositions)
        /\ analysis.total_configs =
              analysis.successful_configs + analysis.failed_configs
        /\ analysis.average_duration.den > 0
        /\ \A j \in 1..Len(analysis.provider_performance) :
              LET entry == analysis.provider_performance[j].value
              IN  /\ entry.average_duration.den > 0
                  /\ entry.average_report_length.den > 0
                  /\ entry.success_rate.den > 0
        /\ IF SuccessPositions = {}
           THEN analysis.average_duration.num = 0
           ELSE FracEq(analysis.average_duration,
                       Frac(SumOfDurations(SuccessPositions),
                            Cardinality(SuccessPositions)))

\* analysed: a list of two failed runs
C17_Witness ==
    /\ analysis # None
    /\ Len(results) = 2
    /\ SuccessPositions = {}
    /\ analysis.failed_configs = 2

\* ----- run_comparison_research: the records ------------------------------
\* C16: every record of run_comparison_research is either succeeded or
\* failed with a message: success is false exactly when error is a string
\* (not None), a failed record has result None, and no record has success
\* true together with an error that is not None.
C16_SucceededOrFailedWithMessage ==
    \A j \in 1..Len(results) :
       /\ results[j].success \in BOOLEAN
       /\ (~results[j].success) <=> (results[j].error.type = "str")
       /\ results[j].success <=> (results[j].error = None)
       /\ ~results[j].success => results[j].result = None
       /\ ~(results[j].success /\ results[j].error # None)

\* a failed record followed by a succeeded one
C16_Witness ==
    \E j \in 1..Len(results) :
       /\ j < Len(results)
       /\ ~results[j].success
       /\ results[j + 1].success

\* ----- the comparison catalog --------------------------------------------
CatalogNames == {comparison_configs[j].name : j \in 1..Len(comparison_configs)}

\* C20: the catalog is a function of the API keys: both OpenAI presets are
\* in it exactly when OPENAI_API_KEY is set, the Anthropic preset exactly
\* when ANTHROPIC_API_KEY is, the Google preset exactly when GOOGLE_API_KEY
\* is, the Mixed preset exactly when the OpenAI and the Anthropic key are;
\* with an empty catalog run_demo prints the error and returns: no research
\* call is made and no file is written.
C20_CatalogFromApiKeys ==
    /\ ("OpenAI GPT-4o (Comprehensive)" \in CatalogNames) <=> ("OPENAI_API_KEY" \in env)
    /\ ("OpenAI GPT-4o-mini (Fast)" \in CatalogNames) <=> ("OPENAI_API_KEY" \in env)
    /\ ("Anthropic Claude (Sonnet)" \in CatalogNames) <=> ("ANTHROPIC_API_KEY" \in env)
    /\ ("Google Gemini" \in CatalogNames) <=> ("GOOGLE_API_KEY" \in env)
    /\ ("Mixed Providers (Best of Both)" \in CatalogNames) <=>
          ("OPENAI_API_KEY" \in env /\ "ANTHROPIC_API_KEY" \in env)
    /\ Cardinality(CatalogNames) = Len(comparison_configs)
    /\ Len(comparison_configs) <= 5
    /\ comparison_configs = <<>> =>
          /\ pc \in {"start", "done"}
          /\ invocations = <<>>
          /\ results = <<>>
          /\ files = <<>>
          /\ pc = "done" =>
                /\ console[Len(console)].msg = "no api keys"
                /\ \A j \in 1..Len(console) : console[j].msg \in {"intro", "no api keys"}

\* run_demo has returned on an empty catalog
C20_Witness ==
    /\ comparison_configs = <<>>
    /\ env = {}
    /\ pc = "done"
    /\ Len(console) = 2


\* ----- the interactive demos: properties ----------------------------------
\* the answers the current iteration has given to a question
Answered(question) ==
    {prompts[j].answer : j \in {k \in 1..Len(prompts) : prompts[k].prompt = question}}

\* the last thing printed is the message of a caught exception
ErrorShown ==
    /\ console # <<>>
    /\ console[Len(console)].msg \in {"unexpected error", "error"}

\* a KeyboardInterrupt cut the current iteration short
IterationInterrupted == \E j \in 1..Len(console) : console[j].msg = "interrupted"

LastQuestion == IF prompts = <<>> THEN "none" ELSE prompts[Len(prompts)].prompt

\* C12: in the loop of every demo (InteractiveDemo, EvaluationDemo,
\* MockDemo), an unexpected exception raised in an iteration is caught, its
\* message is displayed and the user is asked whether to continue; the loop
\* continues exactly when the user confirms.
C12_ExceptionShownAndUserAsked ==
    /\ pc = "ask_continue" => ErrorShown
    /\ ErrorShown => pc = "ask_continue" \/ LastQuestion = "continue"
    /\ LastQuestion = "continue" =>
          /\ prompts[Len(prompts)].answer => pc = LoopHead
          /\ ~prompts[Len(prompts)].answer => pc \in {"thanks", "done"}

\* C13: a numeric menu choice determines the preset: select_configuration
\* accepts only a choice i in 1..N for the catalog of N presets and returns
\* the Configuration built from the i-th preset in catalog order;
\* MockDemo.run_demo passes the i-th catalog key to
\* display_configuration_details (option 2) and to simulate_research
\* (option 3).
C13_ChoiceSelectsPreset ==
    /\ demo = "InteractiveDemo" /\ Answered("Select configuration") # {} =>
          \E choice \in 1..Len(LoadDemoConfigs) :
             /\ Answered("Select configuration") = {choice}
             /\ research_config.type = "Configuration"
             /\ ConfigDict(research_config) = LoadDemoConfigs[choice].value.config
    /\ demo = "InteractiveDemo" /\ pc \notin {"run_demo", "select_configuration", "done",
                                              "thanks"} =>
          Answered("Select configuration") # {}
    /\ demo = "MockDemo" /\ Answered("Select configuration") # {} =>
          \E choice \in 1..Len(demo_configs) :
             /\ Answered("Select configuration") = {choice}
             /\ research_config = demo_configs[choice].key
             /\ Answered("Select an option") = {2} =>
                   \E j \in 1..Len(console) :
                      /\ console[j].msg = "configuration details"
                      /\ console[j].config = demo_configs[choice].value.fields
             /\ Answered("Select an option") = {3} =>
                   research_result.config_used = demo_configs[choice].key
    /\ demo = "MockDemo" /\ Answered("Select an option") \cap {2, 3} # {}
          /\ demo_configs # <<>> /\ ~ListingRaises(demo_configs)
          /\ ~IterationInterrupted =>
             Answered("Select configuration") # {}

\* InteractiveDemo: the last preset was chosen and the research is to run
C13_Witness ==
    /\ demo = "InteractiveDemo"
    /\ pc = "run_research"
    /\ Answered("Select configuration") = {Len(LoadDemoConfigs)}
    /\ research_config.final_report_model = "anthropic:claude-3-5-sonnet-20241022"

\* C14: a numeric menu choice determines the topic: in get_research_topic
\* example i gives the i-th example topic and declining the examples gives
\* the text typed; in option 3 of MockDemo.run_demo a choice i below the last
\* gives the i-th listed topic and the last choice the custom topic typed;
\* the topic so obtained is the one the research run gets.
C14_ChoiceSelectsTopic ==
    /\ demo = "InteractiveDemo" /\ Answered("use an example topic") # {} =>
          /\ Answered("use an example topic") = {TRUE} =>
                \E choice \in 1..Len(Examples) :
                   /\ Answered("Select example") = {choice}
                   /\ research_topic = Examples[choice]
          /\ Answered("use an example topic") = {FALSE} =>
                /\ Answered("Select example") = {}
                /\ Answered("Enter your research topic") = {research_topic}
          /\ FULL_SYSTEM_AVAILABLE /\ pc \in {"ainvoke", "display_results", "ask_another",
                                              "ask_continue"} =>
                /\ invocations # <<>>
                /\ invocations[Len(invocations)].messages[1].content = research_topic
          /\ ~FULL_SYSTEM_AVAILABLE /\ pc \in {"display_results", "ask_another",
                                               "ask_continue"} =>
                research_result.final_report.topic = research_topic
    /\ demo = "InteractiveDemo" /\ pc \in {"run_research", "ainvoke", "display_results",
                                           "ask_another", "ask_continue"} =>
          Answered("use an example topic") # {}
    /\ demo = "MockDemo" /\ Answered("Select topic") # {} =>
          \E choice \in 1..Len(TopicChoices) :
             /\ Answered("Select topic") = {choice}
             /\ choice < Len(TopicChoices) =>
                   /\ research_topic = TopicChoices[choice]
                   /\ Answered("Enter your custom research topic") = {}
             /\ choice = Len(TopicChoices) =>
                   Answered("Enter your custom research topic") = {research_topic}
             /\ Answered("Select configuration") # {} =>
                   /\ \E j \in 1..Len(console) :
                         /\ console[j].msg = "simulating research"
                         /\ console[j].topic = research_topic
                   /\ research_result.final_report.sample =
                         IF choice \in {1, 3} THEN "ai_climate_change"
                         ELSE "quantum_computing"

\* InteractiveDemo in demo mode: the last example was chosen and the
\* fabricated report is about it
C14_Witness ==
    /\ demo = "InteractiveDemo"
    /\ ~FULL_SYSTEM_AVAILABLE
    /\ pc = "display_results"
    /\ Answered("Select example") = {Len(Examples)}
    /\ research_result.final_report.topic = "Blockchain technology in supply chain management"

ThankYouPrinted == console # <<>> /\ console[Len(console)].msg = "thank you"

\* C15: without the open_deep_research package (FULL_SYSTEM_AVAILABLE false)
\* the interactive demo never calls the external research entry point:
\* check_environment returns true whatever API keys are set, so run_demo
\* enters its loop, and run_research returns a fabricated result that has
\* final_report, raw_notes, sources and metadata, all for the given topic.
C15_DemoModeNeverCallsPipeline ==
    demo = "InteractiveDemo" /\ ~FULL_SYSTEM_AVAILABLE =>
        /\ invocations = <<>>
        /\ pc # "ainvoke"
        /\ pc = "select_configuration" /\ iterations = 0 =>
              /\ Len(console) = 2
              /\ console[2].msg = "demo mode"
        /\ pc = "done" => ThankYouPrinted
        /\ pc \in {"display_results", "ask_another", "ask_continue"} =>
              /\ research_result # None
              /\ {"final_report", "raw_notes", "sources", "metadata"}
                    \subseteq DOMAIN research_result
              /\ research_result.final_report.topic = research_topic
              /\ \A j \in 1..Len(research_result.raw_notes) :
                    research_result.raw_notes[j].about = research_topic
              /\ \A j \in 1..Len(research_result.sources) :
                    research_result.sources[j].about = research_topic
              /\ research_result.metadata.model_used = research_config.research_model

\* demo mode with no API key at all: a fabricated result is to be displayed
C15_Witness ==
    /\ demo = "InteractiveDemo"
    /\ ~FULL_SYSTEM_AVAILABLE
    /\ env = {}
    /\ pc = "display_results"
    /\ Len(research_result.raw_notes) = 3

\* the except clause of run_research has just printed its message
ResearchErrorPrinted ==
    /\ console # <<>>
    /\ console[Len(console)].msg = "error during research"

\* C18: with the full system, an exception of the external research call is
\* caught in run_research, which returns None; display_results then prints
\* nothing, asks nothing and writes no file for the None result, and run_demo
\* goes on to the question whether to conduct another research.
C18_FailedResearchShowsNothing ==
    [][demo = "InteractiveDemo" /\ FULL_SYSTEM_AVAILABLE =>
          /\ pc = "ainvoke" /\ ResearchErrorPrinted' =>
                /\ research_result' = None
                /\ pc' = "display_results"
          /\ pc = "display_results" /\ research_result = None =>
                /\ console' = console
                /\ prompts' = prompts
                /\ files' = files
                /\ pc' = "ask_another"]_vars

\* the research call raised and run_demo asks whether to conduct another
\* research
C18_Witness ==
    /\ demo = "InteractiveDemo"
    /\ FULL_SYSTEM_AVAILABLE
    /\ pc = "ask_another"
    /\ research_result = None
    /\ ResearchErrorPrinted
    /\ Len(invocations) = 1

RequiredKeysSet == {"OPENAI_API_KEY", "TAVILY_API_KEY"} \subseteq env

OptionalKeysSet == {"ANTHROPIC_API_KEY", "GOOGLE_API_KEY"} \subseteq env

\* C19: with the full system, run_demo selects no configuration and makes
\* no research call when OPENAI_API_KEY or TAVILY_API_KEY is missing:
\* check_environment returns false and run_demo returns; a missing
\* ANTHROPIC_API_KEY or GOOGLE_API_KEY only gives a warning, and
\* check_environment returns true.
C19_RequiredKeysOrNoResearch ==
    demo = "InteractiveDemo" /\ FULL_SYSTEM_AVAILABLE =>
        /\ ~RequiredKeysSet =>
              /\ pc \in {"run_demo", "done"}
              /\ prompts = <<>>
              /\ research_config = None
              /\ research_result = None
              /\ invocations = <<>>
              /\ files = <<>>
              /\ pc = "done" =>
                    /\ Len(console) = 3
                    /\ console[2].msg = "missing required"
        /\ RequiredKeysSet =>
              /\ pc = "done" => ThankYouPrinted
              /\ pc = "select_configuration" /\ iterations = 0 =>
                    /\ console[Len(console)].msg = "environment check passed"
                    /\ (\E j \in 1..Len(console) : console[j].msg = "missing optional")
                          <=> ~OptionalKeysSet
                    /\ \A j \in 1..Len(console) : console[j].msg # "missing required"

\* the full system with OPENAI_API_KEY but without TAVILY_API_KEY: run_demo
\* has returned
C19_Witness ==
    /\ demo = "InteractiveDemo"
    /\ FULL_SYSTEM_AVAILABLE
    /\ "OPENAI_API_KEY" \in env
    /\ "TAVILY_API_KEY" \notin env
    /\ pc = "done"


\* ----- the last claims ------------------------------------------------------
LinesOf(subsection, line) ==
    {k \in 1..Len(subsection.detail) : subsection.detail[k].line = line}

\* the preview of a report as the Markdown export is to show it
PreviewOf(report) ==
    IF Len(report) <= PreviewLimit THEN report
    ELSE SubSeq(report, 1, PreviewLimit) \o <<".", ".", ".">>

\* the subsection of one run result: an Error line with the recorded message
\* and no preview for a failed run; the report length and the preview for a
\* successful run that has a final_report; never both
SubsectionShows(subsection, result) ==
    /\ ~result.success =>
          /\ \E k \in LinesOf(subsection, "Error") :
                subsection.detail[k].text = result.error
          /\ LinesOf(subsection, "Report Preview") = {}
    /\ result.success /\ HasFinalReport(result) =>
          /\ \E k \in LinesOf(subsection, "Report length") :
                subsection.detail[k].n = Len(result.result.final_report)
          /\ \E k \in LinesOf(subsection, "Report Preview") :
                subsection.detail[k].preview = PreviewOf(result.result.final_report)
    /\ LinesOf(subsection, "Error") = {} \/ LinesOf(subsection, "Report Preview") = {}

\* C21: in the Markdown export of the results save_comparison_results is
\* called with, the subsection of a failed run has an Error line with the
\* recorded message and no report preview, the subsection of a successful
\* run with a final_report has the report length and the preview (the whole
\* report up to 500 characters, else its first 500 characters and '...'),
\* and no subsection has both an Error line and a preview.
C21_MarkdownSubsections ==
    json_data # None =>
        \E k \in CompleteFiles("md") :
           /\ Len(files[k].content) = Len(results) + 5
           /\ \A j \in 1..Len(results) :
                 SubsectionShows(files[k].content[4 + j], results[j])

\* run_demo has returned after a KeyboardInterrupt raised at the await
KeyboardInterrupted == pc = "done" /\ Len(invocations) > Len(outcomes)

\* C22: a KeyboardInterrupt raised while run_comparison_research awaits
\* configuration k is not recorded as a failed run: the comparison is
\* aborted, the results of the configurations before k are discarded, no
\* analysis is displayed, no JSON or Markdown file is written, and run_demo
\* ends with the 'interrupted' message.
C22_InterruptAbortsComparison ==
    KeyboardInterrupted =>
        LET k == invocations[Len(invocations)]
        IN  /\ Len(outcomes) = k - 1
            /\ results = <<>>
            /\ \A j \in 1..Len(console) :
                  /\ console[j].msg \in {"failed", "completed"} =>
                        console[j].config_name # comparison_configs[k].name
                  /\ console[j].msg \notin {"comparison results", "saved", "completed demo",
                                            "error during comparison"}
            /\ analysis = None
            /\ json_data = None
            /\ files = <<>>
            /\ console[Len(console)].msg = "interrupted"

\* interrupted at the third configuration, after a failed and a successful
\* run
C22_Witness ==
    /\ KeyboardInterrupted
    /\ Len(invocations) = 3
    /\ \E j \in 1..Len(outcomes) : outcomes[j].raised
    /\ \E j \in 1..Len(outcomes) : ~outcomes[j].raised
    /\ results = <<>>

\* run_demo is over: it has returned, or an exception has left it
RunDemoOver == pc \in {"done", "raised"}

\* run_demo got as far as its while loop
LoopEntered ==
    demo = "InteractiveDemo" => CheckEnvironment(FULL_SYSTEM_AVAILABLE, env).returns

\* C23: whenever the loop of InteractiveDemo.run_demo or
\* EvaluationDemo.run_demo is left, by the exit choice, by the user declining
\* to continue, or by a KeyboardInterrupt at any prompt, the prompt 'Would
\* you like to continue?' after an error included, the closing thank-you
\* message is printed before run_demo is over.
C23_ThankYouWhenLoopLeft ==
    demo \in {"InteractiveDemo", "EvaluationDemo"} /\ LoopEntered /\ RunDemoOver =>
        ThankYouPrinted

NoConfigurationWarnings ==
    {"no configurations for analysis", "no configurations for simulation"}

\* C24: MockDemo.run_demo leaves its menu loop only on choice 6 or on a
\* KeyboardInterrupt; every other choice returns to the menu; with an empty
\* configuration catalog options 2 and 3 print a warning and return to the
\* menu without asking for a configuration and without simulating research.
C24_MenuLoopOfMockDemo ==
    demo = "MockDemo" =>
        /\ pc \in {"run_demo", "menu", "thanks", "done"}
        /\ pc \in {"thanks", "done"} =>
              Answered("Select an option") = {6} \/ IterationInterrupted
        /\ Answered("Select an option") \cap (1..5) # {} /\ ~IterationInterrupted =>
              pc = "menu"
        /\ demo_configs = <<>> /\ Answered("Select an option") \cap {2, 3} # {} =>
              /\ pc = "menu"
              /\ Len(console) = 2
              /\ console[2].msg \in NoConfigurationWarnings
              /\ Answered("Select configuration") = {}
              /\ Answered("Select topic") = {}
              /\ research_config = None
              /\ research_result = None

\* option 3 was chosen with an empty catalog and the menu is shown again
C24_Witness ==
    /\ demo = "MockDemo"
    /\ demo_configs = <<>>
    /\ Answered("Select an option") = {3}
    /\ pc = "menu"
    /\ console[Len(console)].msg = "no configurations for simulation"

SlugCharacters == Letters \cup Digits \cup {"-", "_"}

\* the length a slug is cut to
SlugLimit == IF pc = "save_comparison_results" THEN ComparisonSlugLen ELSE InteractiveSlugLen

\* C25: the slug save_comparison_results and InteractiveDemo.save_results
\* derive from a topic has only alphanumeric characters, '-' and '_' (no
\* space, no path separator, no dot) and at most 40 resp. 50 characters,
\* for every topic; sanitizing the slug again gives the same slug.
C25_SlugIsSafeAndStable ==
    pc \in {"save_comparison_results", "save_results"} =>
        /\ \A j \in 1..Len(research_result.safe_topic) :
              research_result.safe_topic[j] \in SlugCharacters
        /\ Len(research_result.safe_topic) <= SlugLimit
        /\ research_result.again = research_result.safe_topic

\* a topic of more than 40 characters with a path separator, a dot and a
\* space in it, cut to a 40-character slug that ends in '_'
C25_Witness ==
    /\ pc = "save_comparison_results"
    /\ Len(research_topic) > ComparisonSlugLen
    /\ \E j \in 1..Len(research_topic) : research_topic[j] = "/"
    /\ \E j \in 1..Len(research_topic) : research_topic[j] = "."
    /\ Len(research_result.safe_topic) = ComparisonSlugLen
    /\ research_result.safe_topic[ComparisonSlugLen] = "_"

Metrics == {"comprehensiveness", "source_diversity", "structure_quality", "accuracy", "clarity"}

\* a score as a whole number of thousandths
Thousandths(x) == (1000 * x.num) \div x.den

\* lo / 100 <= x <= hi / 100
Within(x, lo, hi) == lo * x.den <= 100 * x.num /\ 100 * x.num <= hi * x.den

\* C26: evaluate_report_quality returns five metrics within [0, 1]:
\* comprehensiveness = min(1, report length / 1000), source_diversity =
\* min(1, sources / 20), and three random scores within [0.7, 0.95],
\* [0.75, 0.92] and [0.8, 0.95]; overall_score is their arithmetic mean and
\* so within [0, 1] too.
C26_MetricsAndMean ==
    pc = "evaluated" =>
        LET evaluation == research_result
            report     == research_config
        IN  /\ DOMAIN evaluation = Metrics \cup {"overall_score"}
            /\ \A m \in DOMAIN evaluation :
                  /\ evaluation[m].den > 0
                  /\ 0 <= evaluation[m].num
                  /\ evaluation[m].num <= evaluation[m].den
            /\ IF report.report_length >= 1000
               THEN evaluation.comprehensiveness.num = evaluation.comprehensiveness.den
               ELSE evaluation.comprehensiveness.num * 1000 =
                       report.report_length * evaluation.comprehensiveness.den
            /\ IF report.sources_count >= 20
               THEN evaluation.source_diversity.num = evaluation.source_diversity.den
               ELSE evaluation.source_diversity.num * 20 =
                       report.sources_count * evaluation.source_diversity.den
            /\ Within(evaluation.structure_quality, 70, 95)
            /\ Within(evaluation.accuracy, 75, 92)
            /\ Within(evaluation.clarity, 80, 95)
            /\ \A m \in Metrics : (1000 * evaluation[m].num) % evaluation[m].den = 0
            /\ 5000 * evaluation.overall_score.num =
                  evaluation.overall_score.den *
                     (Thousandths(evaluation.comprehensiveness)
                      + Thousandths(evaluation.source_diversity)
                      + Thousandths(evaluation.structure_quality)
                      + Thousandths(evaluation.accuracy)
                      + Thousandths(evaluation.clarity))

\* a report longer than the full length with more than the full number of
\* sources, every random score at its upper end
C26_Witness ==
    /\ pc = "evaluated"
    /\ research_config.report_length > FullLength
    /\ research_config.sources_count > FullSources
    /\ FracEq(research_result.structure_quality, Frac(95, 100))
    /\ FracEq(research_result.accuracy, Frac(92, 100))
    /\ FracEq(research_result.clarity, Frac(95, 100))
    /\ FracEq(research_result.overall_score, Frac(964, 1000))

====
